---------------------------- MODULE Spec2Model ----------------------------
(***************************************************************************)
(* Receipt extraction pipeline of services/groq-vision.ts:                 *)
(*   normalizeResponse     - the response normalizer (a pure function)     *)
(*   processImageForUpload - reads and size-checks the image payload       *)
(*   parseReceipt          - one attempt: image, credential, fetch, parse  *)
(*   parseReceiptWithRetry - the retry controller                          *)
(*                                                                         *)
(* JavaScript values are records [t, n, s]: t is the type tag, n the       *)
(* numeric value in units of 1/NumScale (a double restricted to four       *)
(* decimals), s the text as a sequence of tokens (digits and punctuation   *)
(* are one-character tokens, other words are one token each).              *)
(***************************************************************************)
EXTENDS Integers, Sequences, FiniteSets, TLC

\* ------------------------------------------------------------------------
\* JavaScript values
\* ------------------------------------------------------------------------

NumScale == 100 * 100

Undef == [t |-> "undef", n |-> 0, s |-> <<>>]
Null == [t |-> "null", n |-> 0, s |-> <<>>]
Num(x) == [t |-> "num", n |-> x, s |-> <<>>]
Whole(k) == Num(k * NumScale)
Str(toks) == [t |-> "str", n |-> 0, s |-> toks]
Bool(b) == [t |-> "bool", n |-> IF b THEN 1 ELSE 0, s |-> <<>>]
EmptyObj == [t |-> "obj", n |-> 0, s |-> <<>>]
EmptyArr == [t |-> "arr", n |-> 0, s |-> <<>>]

\* ToBoolean: what `if (v)`, `v || w` and `!v` test.
Truthy(v) ==
    CASE v.t = "str" -> v.s # <<>>
      [] v.t = "num" -> v.n # 0
      [] v.t = "bool" -> v.n = 1
      [] v.t \in {"obj", "arr"} -> TRUE
      [] OTHER -> FALSE

\* a || b
OrElse(a, b) == IF Truthy(a) THEN a ELSE b

\* typeof v === 'number'
IsNumber(v) == v.t = "num"

\* ------------------------------------------------------------------------
\* Text
\* ------------------------------------------------------------------------

DigitChars == <<"0", "1", "2", "3", "4", "5", "6", "7", "8", "9">>

IsDigit(c) == \E i \in 1..10 : DigitChars[i] = c

DigitVal(c) == (CHOOSE i \in 1..10 : DigitChars[i] = c) - 1

\* Decimal digits of a natural number, as template literals print it.
RECURSIVE Digits(_)
Digits(k) ==
    IF k < 10 THEN <<DigitChars[k + 1]>>
    ELSE Digits(k \div 10) \o <<DigitChars[(k % 10) + 1]>>

\* An integer as `${k}` prints it.
IntText(k) == IF k < 0 THEN <<"-">> \o Digits(-k) ELSE Digits(k)

\* padStart(width, '0') of the digits of k.
RECURSIVE Pad(_, _)
Pad(k, width) ==
    IF width <= 1 THEN Digits(k)
    ELSE IF Len(Digits(k)) >= width THEN Digits(k)
    ELSE <<"0">> \o Pad(k, width - 1)

AllDigits(toks) == \A i \in 1..Len(toks) : IsDigit(toks[i])

RECURSIVE ParseNat(_)
ParseNat(toks) ==
    IF toks = <<>> THEN 0
    ELSE 10 * ParseNat(SubSeq(toks, 1, Len(toks) - 1)) + DigitVal(toks[Len(toks)])

LowerWords == <<"usd", "bdt", "eur", "tk">>
UpperWords == <<"USD", "BDT", "EUR", "TK">>

\* String.prototype.toUpperCase on one token.
UpperToken(w) ==
    IF \E i \in 1..Len(LowerWords) : LowerWords[i] = w
    THEN UpperWords[CHOOSE i \in 1..Len(LowerWords) : LowerWords[i] = w]
    ELSE w

toUpperCase(toks) == [i \in 1..Len(toks) |-> UpperToken(toks[i])]

\* ------------------------------------------------------------------------
\* Date: a time value is [valid, day, min], day = days since 1970-01-01 UTC,
\* min = minute of that day; valid = FALSE is the NaN time value.
\* ------------------------------------------------------------------------

MinutesPerDay == 24 * 60
MsPerMinute == 60 * 1000

InvalidDate == [valid |-> FALSE, day |-> 0, min |-> 0]

IsLeap(y) == (y % 4 = 0 /\ y % 100 # 0) \/ y % 400 = 0

DaysInMonth(y, m) ==
    IF m = 2 THEN (IF IsLeap(y) THEN 29 ELSE 28)
    ELSE IF m \in {4, 6, 9, 11} THEN 30 ELSE 31

\* Days since the epoch of the civil date y-m-d (proleptic Gregorian).
DaysFromCivil(y, m, d) ==
    LET yy == IF m <= 2 THEN y - 1 ELSE y
        era == yy \div 400
        yoe == yy - era * 400
        mp == IF m > 2 THEN m - 3 ELSE m + 9
        doy == (153 * mp + 2) \div 5 + d - 1
        doe == yoe * 365 + yoe \div 4 - yoe \div 100 + doy
    IN era * 146097 + doe - 719468

\* The civil date <<y, m, d>> of a day number.
CivilFromDays(z) ==
    LET zz == z + 719468
        era == zz \div 146097
        doe == zz - era * 146097
        yoe == (doe - doe \div 1460 + doe \div 36524 - doe \div 146096) \div 365
        doy == doe - (365 * yoe + yoe \div 4 - yoe \div 100)
        mp == (5 * doy + 2) \div 153
        d == doy - (153 * mp + 2) \div 5 + 1
        m == IF mp < 10 THEN mp + 3 ELSE mp - 9
    IN <<IF m <= 2 THEN yoe + era * 400 + 1 ELSE yoe + era * 400, m, d>>

\* The time value of local midnight of y-m-d on a device whose zone is tz
\* minutes east of UTC.
LocalMidnight(y, m, d, tz) ==
    LET total == 0 - tz
    IN [valid |-> TRUE,
        day |-> DaysFromCivil(y, m, d) + (total \div MinutesPerDay),
        min |-> total % MinutesPerDay]

UtcMidnight(y, m, d) == [valid |-> TRUE, day |-> DaysFromCivil(y, m, d), min |-> 0]

MonthNames == <<"Jan", "Feb", "Mar", "Apr", "May", "Jun",
                "Jul", "Aug", "Sep", "Oct", "Nov", "Dec">>

IsMonthName(w) == \E i \in 1..12 : MonthNames[i] = w

MonthOf(w) == CHOOSE i \in 1..12 : MonthNames[i] = w

ValidYMD(y, m, d) == m \in 1..12 /\ d >= 1 /\ d <= DaysInMonth(y, m)

\* "YYYY-MM-DD": the date-only ISO form, which Date reads as UTC.
IsIsoDateText(toks) ==
    /\ Len(toks) = 10
    /\ toks[5] = "-" /\ toks[8] = "-"
    /\ AllDigits(SubSeq(toks, 1, 4))
    /\ AllDigits(SubSeq(toks, 6, 7))
    /\ AllDigits(SubSeq(toks, 9, 10))

\* "Mon D, YYYY": a non-ISO form, which Date reads as local time.
IsMonthDayYearText(toks) ==
    /\ Len(toks) \in {9, 10}
    /\ IsMonthName(toks[1]) /\ toks[2] = " "
    /\ AllDigits(SubSeq(toks, 3, Len(toks) - 6))
    /\ toks[Len(toks) - 5] = "," /\ toks[Len(toks) - 4] = " "
    /\ AllDigits(SubSeq(toks, Len(toks) - 3, Len(toks)))

\* new Date(text) on device dev.  The ISO form is read the same everywhere;
\* the month-name form is outside the ECMAScript date grammar: an engine
\* either rejects it (dev.legacy = FALSE) or reads it as local time.
DateParse(toks, dev) ==
    IF IsIsoDateText(toks) THEN
        LET y == ParseNat(SubSeq(toks, 1, 4))
            m == ParseNat(SubSeq(toks, 6, 7))
            d == ParseNat(SubSeq(toks, 9, 10))
        IN IF ValidYMD(y, m, d) THEN UtcMidnight(y, m, d) ELSE InvalidDate
    ELSE IF dev.legacy /\ IsMonthDayYearText(toks) THEN
        LET y == ParseNat(SubSeq(toks, Len(toks) - 3, Len(toks)))
            m == MonthOf(toks[1])
            d == ParseNat(SubSeq(toks, 3, Len(toks) - 6))
        IN IF ValidYMD(y, m, d) THEN LocalMidnight(y, m, d, dev.offset) ELSE InvalidDate
    ELSE InvalidDate

\* new Date(v) for a JSON value v.
NewDate(v, dev) ==
    CASE v.t = "str" -> DateParse(v.s, dev)
      [] v.t \in {"num", "bool"} ->
            LET ms == IF v.t = "bool" THEN v.n ELSE v.n \div NumScale
                mins == ms \div MsPerMinute
            IN [valid |-> TRUE, day |-> mins \div MinutesPerDay,
                min |-> mins % MinutesPerDay]
      [] OTHER -> InvalidDate

\* Date.prototype.toISOString of a valid time value.
toISOString(time) ==
    LET ymd == CivilFromDays(time.day)
        year == IF ymd[1] >= 0 /\ ymd[1] <= 9999 THEN Pad(ymd[1], 4)
                ELSE IF ymd[1] < 0 THEN <<"-">> \o Pad(0 - ymd[1], 6)
                ELSE <<"+">> \o Pad(ymd[1], 6)
    IN year \o <<"-">> \o Pad(ymd[2], 2) \o <<"-">> \o Pad(ymd[3], 2)
       \o <<"T">> \o Pad(time.min \div 60, 2) \o <<":">> \o Pad(time.min % 60, 2)
       \o <<":", "0", "0", ".", "0", "0", "0", "Z">>

\* text.split('T')[0]
RECURSIVE SplitT0(_)
SplitT0(toks) ==
    IF toks = <<>> \/ Head(toks) = "T" THEN <<>>
    ELSE <<Head(toks)>> \o SplitT0(Tail(toks))

\* Number.prototype.toString of a non-negative number with up to four decimals.
RECURSIVE StripZeros(_)
StripZeros(toks) ==
    IF toks # <<>> /\ toks[Len(toks)] = "0"
    THEN StripZeros(SubSeq(toks, 1, Len(toks) - 1))
    ELSE toks

NumText(k) ==
    LET a == IF k < 0 THEN 0 - k ELSE k
        frac == StripZeros(Pad(a % NumScale, 4))
        body == Digits(a \div NumScale) \o (IF frac = <<>> THEN <<>> ELSE <<".">> \o frac)
    IN IF k < 0 THEN <<"-">> \o body ELSE body

\* String(v) for a truthy value v.
StringOf(v) ==
    CASE v.t = "str" -> v.s
      [] v.t = "num" -> NumText(v.n)
      [] v.t = "bool" -> <<"true">>
      [] v.t = "obj" -> <<"[object Object]">>
      [] OTHER -> <<>>

\* ------------------------------------------------------------------------
\* GroqReceiptResponse: the parsed reply and the normalized result.  A
\* reply is any JSON value: t is its type and the twelve fields are what
\* property access yields (Undef on a value that has no such property).
\* ------------------------------------------------------------------------

NoItems == [t |-> "undef", elems |-> <<>>]
ItemList(elems) == [t |-> "arr", elems |-> elems]
NotAList(tag) == [t |-> tag, elems |-> <<>>]

Item(name, quantity, price) ==
    [t |-> "obj", name |-> name, quantity |-> quantity, price |-> price]
NonObjectItem(tag) == [t |-> tag, name |-> Undef, quantity |-> Undef, price |-> Undef]

Response(tag) ==
    [t |-> tag,
     merchant_name |-> Undef, receipt_date |-> Undef, receipt_number |-> Undef,
     invoice_type |-> Undef, items |-> NoItems,
     subtotal |-> Undef, tax |-> Undef, total |-> Undef,
     currency |-> Undef, payment_method |-> Undef,
     confidence_score |-> Undef, error_message |-> Undef]

\* A completion of a function: what it returned, or the error it threw.
Returned(v) == [threw |-> FALSE, isError |-> FALSE, message |-> <<>>, val |-> v]
Thrown(msg) == [threw |-> TRUE, isError |-> TRUE, message |-> msg, val |-> Response("undef")]
ThrownValue(msg) == [threw |-> TRUE, isError |-> FALSE, message |-> msg, val |-> Response("undef")]

\* Property access throws a TypeError on null and undefined.
HasProperties(v) == v.t \notin {"null", "undef"}

validTypes == {"retail", "restaurant", "utility", "service", "unknown"}

\* Mutant of NormalizeInvoiceType: any text is accepted as a type.
NormalizeInvoiceTypeAnyText(v) ==
    IF v.t = "str" /\ v.s # <<>> THEN v ELSE Str(<<"unknown">>)

\* lines 365-367
NormalizeInvoiceType(v) ==
    IF v.t = "str" /\ Len(v.s) = 1 /\ v.s[1] \in validTypes THEN v ELSE Str(<<"unknown">>)

\* lines 371-376, one element of response.items
NormalizeItem(item) ==
    [t |-> "obj",
     name |-> Str(StringOf(OrElse(item.name, Str(<<"Unknown Item">>)))),
     quantity |-> IF IsNumber(item.quantity) THEN item.quantity ELSE Null,
     price |-> IF IsNumber(item.price) THEN item.price ELSE Num(0)]

\* lines 370-377
NormalizeItems(items) ==
    IF items.t = "arr"
    THEN ItemList([i \in 1..Len(items.elems) |-> NormalizeItem(items.elems[i])])
    ELSE ItemList(<<>>)

ItemsThrow(items) ==
    items.t = "arr" /\ \E i \in 1..Len(items.elems) : ~HasProperties(items.elems[i])

\* lines 380-392
NormalizeDate(v, dev) ==
    IF Truthy(v)
    THEN LET date == NewDate(v, dev)
         IN IF date.valid THEN Str(SplitT0(toISOString(date))) ELSE Null
    ELSE v

\* line 395: response.currency?.toUpperCase() || 'BDT'
CurrencyThrows(v) == v.t \notin {"null", "undef", "str"}

\* Mutant of NormalizeCurrency: ?? in place of ||, an empty text is kept.
NormalizeCurrencyNullish(v) ==
    IF v.t = "str" THEN Str(toUpperCase(v.s)) ELSE Str(<<"BDT">>)

NormalizeCurrency(v) ==
    IF v.t = "str" /\ toUpperCase(v.s) # <<>> THEN Str(toUpperCase(v.s))
    ELSE Str(<<"BDT">>)

\* Mutant of NormalizeConfidence: every score above 1 is read as a percentage.
NormalizeConfidenceNoClamp(v) ==
    IF ~IsNumber(v) \/ v.n < 0 THEN Num(0)
    ELSE IF v.n > NumScale THEN Num(v.n \div 100)
    ELSE v

\* lines 398-403
NormalizeConfidence(v) ==
    IF ~IsNumber(v) \/ v.n < 0 THEN Num(0)
    ELSE IF v.n > NumScale
         THEN (IF v.n > 100 * NumScale THEN Num(NumScale) ELSE Num(v.n \div 100))
         ELSE v

NumberOrNull(v) == IF IsNumber(v) THEN v ELSE Null

\* lines 356-420, run on device dev
normalizeResponse(response, dev) ==
    IF ~HasProperties(response)
    THEN Thrown(<<"Cannot read property 'invoice_type' of null">>)
    ELSE IF ItemsThrow(response.items)
    THEN Thrown(<<"Cannot read property 'name' of null">>)
    ELSE IF CurrencyThrows(response.currency)
    THEN Thrown(<<"response.currency?.toUpperCase is not a function">>)
    ELSE Returned(
        [t |-> "obj",
         merchant_name |-> OrElse(response.merchant_name, Null),
         receipt_date |-> NormalizeDate(response.receipt_date, dev),
         receipt_number |-> OrElse(response.receipt_number, Null),
         invoice_type |-> NormalizeInvoiceType(response.invoice_type),
         items |-> NormalizeItems(response.items),
         subtotal |-> NumberOrNull(response.subtotal),
         tax |-> NumberOrNull(response.tax),
         total |-> NumberOrNull(response.total),
         currency |-> NormalizeCurrency(response.currency),
         payment_method |-> OrElse(response.payment_method, Null),
         confidence_score |-> NormalizeConfidence(response.confidence_score),
         error_message |-> OrElse(response.error_message, Null)])

\* ------------------------------------------------------------------------
\* State
\* ------------------------------------------------------------------------

VARIABLES
    device,      \* [offset: the time zone, minutes east of UTC; legacy: Date reads "Mon D, YYYY"]
    nin,         \* normalizeResponse: the reply handed to it
    nout,        \* normalizeResponse: its completion
    npc,         \* "ready" before the call, "done" after it
    pc,          \* parseReceiptWithRetry: "idle", "loop" (at the loop test), "done"
    maxRetries,  \* its maxRetries argument
    attempt,     \* its loop counter
    lastError,   \* its lastError: Null or the message of the Error
    delays,      \* the backoff sleeps so far, <<attempt, milliseconds>> each
    log,         \* what the environment did to each parseReceipt call so far
    last,        \* the result of the latest parseReceipt call
    ret,         \* the value parseReceiptWithRetry returned
    via,         \* "none", "result" (line 320) or "exhausted" (line 337)
    image,       \* Capture Screen: the image handed to handleCapture
    validation,  \* what validateImage returned for it
    cstate,      \* the screen's state: "idle", "processing", "success", "error"
    errorMessage,\* the screen's errorMessage
    stored,      \* the rows of the receipts table
    processedReceipt, \* the screen's processedReceipt
    receipts,    \* exportReceipts: the receipts handed to it
    format,      \* its format argument
    file,        \* the file it wrote
    started,     \* parseReceiptWithRetry: the attempts whose parseReceipt call has begun
    db,          \* storage.ts: the module's db handle
    isInitialized, \* storage.ts: the module's isInitialized flag
    procs,       \* the storage calls in progress and where each one stands
    isEnabled,   \* useOTAUpdates: Updates.isEnabled
    ustate,      \* the hook's state
    rendered,    \* the state the latest render has seen
    calls,       \* the hook's function calls in progress
    fetchCalls,  \* how often Updates.fetchUpdateAsync was called
    reloads      \* how often Updates.reloadAsync was called

normVars == <<nin, nout, npc>>
retryVars == <<pc, maxRetries, attempt, lastError, delays, log, last, ret, via>>
captureVars == <<image, validation, cstate, errorMessage, stored, processedReceipt>>
vars == <<device, nin, nout, npc, pc, maxRetries, attempt, lastError, delays, log, last, ret, via,
          image, validation, cstate, errorMessage, stored, processedReceipt,
          receipts, format, file, started, db, isInitialized, procs,
          isEnabled, ustate, rendered, calls, fetchCalls, reloads>>
exportVars == <<receipts, format, file>>
dbVars == <<db, isInitialized, procs>>
otaVars == <<isEnabled, ustate, rendered, calls, fetchCalls, reloads>>
\* What the receipt-processing actions leave alone.
appVars == <<exportVars, started, dbVars, otaVars>>

\* Before handleCapture has run.
NoImage ==
    [uri |-> "none", infoThrows |-> FALSE, exists |-> FALSE, reportsSize |-> FALSE,
     bytes |-> 0, sizeRejects |-> FALSE, width |-> 0, height |-> 0,
     isError |-> TRUE, message |-> <<>>]
NoValidation == [valid |-> FALSE, error |-> Undef]
NoReceipt == [id |-> "none"]

\* exportReceipts has not been called.
NoFile == [kind |-> "none", rows |-> <<>>, json |-> <<>>]
ExportIdle == receipts = <<>> /\ format = "none" /\ file = NoFile

\* storage.ts lines 17-18: let db = null; let isInitialized = false; no call yet.
DbIdle == db = "null" /\ isInitialized = FALSE /\ procs = <<>>

\* use-ota-updates.ts lines 36-42: the state before the first render
InitialUpdateState ==
    [isUpdateAvailable |-> FALSE, isUpdatePending |-> FALSE, isChecking |-> FALSE,
     error |-> Null]
OtaIdle ==
    /\ isEnabled = FALSE /\ ustate = InitialUpdateState /\ rendered = InitialUpdateState
    /\ calls = <<>> /\ fetchCalls = 0 /\ reloads = 0

\* ------------------------------------------------------------------------
\* The replies normalizeResponse is applied to
\* ------------------------------------------------------------------------

MaxItems == 2

\* New York (EST), UTC, Kathmandu, Dhaka
TimeZones == {0 - 300, 0, 345, 360}

Devices == [offset : TimeZones, legacy : BOOLEAN]

DateValues ==
    {Undef, Null, Str(<<>>), Str(<<"not a date">>),
     Str(<<"Jan", " ", "1", "2", ",", " ", "2", "0", "2", "5">>),
     Str(<<"Mar", " ", "1", ",", " ", "2", "0", "2", "4">>),
     Str(<<"2", "0", "2", "5", "-", "0", "1", "-", "1", "2">>),
     Str(<<"2", "0", "2", "4", "-", "1", "2", "-", "3", "1">>),
     Str(<<"2", "0", "2", "5", "-", "1", "3", "-", "0", "1">>),
     Num(0), Whole(5), Bool(FALSE), Bool(TRUE), EmptyObj}

ConfidenceValues ==
    {Undef, Null, Str(<<"high">>), Bool(TRUE), Num(0), Num(9200), Num(NumScale),
     Num(NumScale + 100), Whole(75), Whole(100), Num(100 * NumScale + 100),
     Whole(150), Whole(0 - 1), Num(0 - 100)}

CurrencyValues ==
    {Undef, Null, Str(<<>>), Str(<<"usd">>), Str(<<"BDT">>), Str(<<"eur">>),
     Whole(5), Bool(FALSE), EmptyObj}

InvoiceTypeValues ==
    {Undef, Null, Whole(1), Str(<<"grocery">>), Str(<<"retail">>), Str(<<"restaurant">>),
     Str(<<"utility">>), Str(<<"service">>), Str(<<"unknown">>)}

TextValues == {Undef, Null, Str(<<>>), Str(<<"Shwapno">>), Whole(7), Bool(TRUE), EmptyObj}

NumberValues == {Undef, Null, Num(0), Whole(500), Num(125050), Str(<<"5", "0", "0">>)}

ItemNames == {Undef, Str(<<>>), Str(<<"Rice">>), Whole(3), EmptyArr}
ItemNumbers == {Undef, Null, Whole(2), Whole(0 - 1), Str(<<"abc">>)}

ItemValues ==
    {Item(nm, q, Whole(120)) : nm \in ItemNames, q \in {Undef, Whole(2)}}
    \cup {Item(Str(<<"Rice">>), q, pr) : q \in ItemNumbers, pr \in ItemNumbers}
    \cup {NonObjectItem("null"), NonObjectItem("num")}

ItemLists == UNION {[1..k -> ItemValues] : k \in 0..MaxItems}

ItemsValues ==
    {NoItems, NotAList("null"), NotAList("str"), NotAList("obj")}
    \cup {ItemList(l) : l \in ItemLists}

\* A reply the model gives for a readable receipt.
GoodReply ==
    [Response("obj") EXCEPT
        !.merchant_name = Str(<<"Shwapno">>),
        !.receipt_date = Str(<<"2", "0", "2", "5", "-", "0", "1", "-", "1", "2">>),
        !.invoice_type = Str(<<"retail">>),
        !.items = ItemList(<<Item(Str(<<"Rice">>), Whole(2), Whole(120))>>),
        !.total = Whole(500),
        !.currency = Str(<<"BDT">>),
        !.payment_method = Str(<<"Cash">>),
        !.confidence_score = Num(9200),
        !.error_message = Null]

NormInputs ==
    {Response(tag) : tag \in {"null", "arr", "num", "str", "bool", "obj"}}
    \cup {[GoodReply EXCEPT !.receipt_date = d] : d \in DateValues}
    \cup {[GoodReply EXCEPT !.confidence_score = c] : c \in ConfidenceValues}
    \cup {[GoodReply EXCEPT !.currency = c] : c \in CurrencyValues}
    \cup {[GoodReply EXCEPT !.invoice_type = v] : v \in InvoiceTypeValues}
    \cup {[GoodReply EXCEPT !.merchant_name = v, !.receipt_number = v,
                            !.payment_method = w, !.error_message = w] :
            v \in TextValues, w \in TextValues}
    \cup {[GoodReply EXCEPT !.subtotal = v, !.tax = w, !.total = u] :
            v \in NumberValues, w \in NumberValues, u \in NumberValues}
    \cup {[GoodReply EXCEPT !.items = l] : l \in ItemsValues}
    \cup {[Response("obj") EXCEPT !.receipt_date = d, !.confidence_score = c] :
            d \in DateValues, c \in ConfidenceValues}

NotCalled == Thrown(<<"not called">>)

InitNorm ==
    /\ device \in Devices
    /\ nin \in NormInputs
    /\ nout = NotCalled
    /\ npc = "ready"
    /\ pc = "idle" /\ maxRetries = 0 /\ attempt = 0 /\ lastError = Null
    /\ delays = <<>> /\ log = <<>> /\ last = Response("undef")
    /\ ret = Response("undef") /\ via = "none"
    /\ image = NoImage /\ validation = NoValidation /\ cstate = "off"
    /\ errorMessage = Null /\ stored = {} /\ processedReceipt = NoReceipt
    /\ ExportIdle /\ started = <<>> /\ DbIdle /\ OtaIdle

\* const result = normalizeResponse(parsed)
Normalize ==
    /\ npc = "ready"
    /\ nout' = normalizeResponse(nin, device)
    /\ npc' = "done"
    /\ UNCHANGED <<device, nin>>
    /\ UNCHANGED retryVars
    /\ UNCHANGED captureVars
    /\ UNCHANGED appVars

NextNorm == Normalize

SpecNorm == InitNorm /\ [][NextNorm]_vars

\* ------------------------------------------------------------------------
\* One parseReceipt call and its environment
\* ------------------------------------------------------------------------

MAX_BASE64_SIZE == 4 * 1024 * 1024

\* What the file system, the configuration, the network and the model do
\* during one parseReceipt call.
Env(kind) ==
    [kind |-> kind,
     exists |-> TRUE,            \* fileInfo.exists
     base64Len |-> 1024,         \* length of the base64 text read
     hasKey |-> TRUE,            \* EXPO_PUBLIC_GROQ_API_KEY is set
     status |-> 200,             \* response.status
     reply |-> GoodReply,        \* JSON.parse(content)
     isError |-> TRUE,           \* the thrown value is an Error
     message |-> <<>>]           \* its message

SoftReply == [GoodReply EXCEPT !.total = Null, !.items = ItemList(<<>>)]
NotAReceiptReply ==
    [Response("obj") EXCEPT !.invoice_type = Str(<<"unknown">>),
                            !.error_message = Str(<<"Image is not a receipt">>)]
PercentReply == [GoodReply EXCEPT !.confidence_score = Whole(75), !.currency = Str(<<"usd">>)]

\* The length of the base64 text of a file of n bytes.
Base64LengthOf(n) == 4 * ((n + 2) \div 3)

\* Encoded lengths on both sides of 4 MB of text and of 4 MB of decoded bytes.
Base64Lengths ==
    {Base64LengthOf(n) : n \in {768, 3145728, 3145731, 4194303, 4194306, 4500000}}

Envs ==
    {[Env("reply") EXCEPT !.reply = r] :
        r \in {GoodReply, SoftReply, NotAReceiptReply, PercentReply, Response("obj"),
               Response("null"), [GoodReply EXCEPT !.currency = Whole(5)]}}
    \cup {[Env("reply") EXCEPT !.base64Len = n] : n \in Base64Lengths}
    \cup {[Env("fileMissing") EXCEPT !.exists = FALSE]}
    \cup {[Env("getInfoThrows") EXCEPT !.message = <<"File is not readable">>]}
    \cup {[Env("getSizeRejects") EXCEPT !.isError = b, !.message = <<"Failed to get size">>] :
            b \in BOOLEAN}
    \cup {[Env("readThrows") EXCEPT !.message = m] : m \in {<<"Out of memory">>, <<>>}}
    \cup {[Env("noKey") EXCEPT !.hasKey = FALSE]}
    \cup {[Env("fetchThrows") EXCEPT !.message = <<"Network request failed">>]}
    \cup {[Env("httpError") EXCEPT !.status = st, !.message = <<"Too Many Requests">>] :
            st \in {429, 500}}
    \cup {[Env("jsonRejects") EXCEPT !.message = <<"JSON Parse error">>]}
    \cup {Env("noContent")}
    \cup {[Env("badJson") EXCEPT !.message = <<"JSON Parse error: Unexpected token">>]}

\* The value the environment throws in this call.
EnvThrow(env) ==
    IF env.isError THEN Thrown(env.message) ELSE ThrownValue(env.message)

\* lines 172-219
processImageForUpload(env) ==
    IF env.kind = "getInfoThrows" THEN EnvThrow(env)
    ELSE IF ~env.exists THEN Thrown(<<"Image file not found">>)
    ELSE IF env.kind = "getSizeRejects" THEN EnvThrow(env)
    ELSE IF env.kind = "readThrows" THEN EnvThrow(env)
    ELSE IF 3 * env.base64Len > 4 * MAX_BASE64_SIZE
    THEN Thrown(<<"Image too large (">>
                \o IntText((3 * env.base64Len + 2 * 1024 * 1024) \div (4 * 1024 * 1024))
                \o <<"MB). Maximum size is 4MB. Please use a smaller image.">>)
    ELSE Returned(Response("obj"))

\* Mutant of getApiKey: a missing key is not noticed.
getApiKeyUnchecked(env) == Returned(Response("obj"))

\* lines 23-30
getApiKey(env) ==
    IF ~env.hasKey
    THEN Thrown(<<"GROQ_API_KEY not found. Please set EXPO_PUBLIC_GROQ_API_KEY or GROQ_API_KEY.">>)
    ELSE Returned(Response("obj"))

\* Whether the call reaches fetch (line 235).
Fetches(env) == ~processImageForUpload(env).threw /\ ~getApiKey(env).threw

\* lines 288-301: the object the catch block returns
ErrorResponse(msg) ==
    [Response("obj") EXCEPT
        !.merchant_name = Null, !.receipt_date = Null, !.receipt_number = Null,
        !.invoice_type = Str(<<"unknown">>), !.items = ItemList(<<>>),
        !.subtotal = Null, !.tax = Null, !.total = Null,
        !.currency = Str(<<"BDT">>), !.payment_method = Null,
        !.confidence_score = Num(0), !.error_message = Str(msg)]

\* lines 228-284: the try block
parseReceiptTry(env, dev) ==
    IF processImageForUpload(env).threw THEN processImageForUpload(env)
    ELSE IF getApiKey(env).threw THEN getApiKey(env)
    ELSE IF env.kind = "fetchThrows" THEN EnvThrow(env)
    ELSE IF env.kind = "httpError"
    THEN Thrown(<<"Groq API error: ">> \o IntText(env.status) \o <<" - ">> \o env.message)
    ELSE IF env.kind = "jsonRejects" THEN EnvThrow(env)
    ELSE IF env.kind = "noContent" THEN Thrown(<<"No response from Groq API">>)
    ELSE IF env.kind = "badJson" THEN EnvThrow(env)
    ELSE normalizeResponse(env.reply, dev)

\* Mutant of parseReceiptCatch: every failure gets the fixed text.
parseReceiptCatchFixedText(error) ==
    Returned(ErrorResponse(<<"Unknown error occurred">>))

\* lines 285-302: the catch block
parseReceiptCatch(error) ==
    Returned(ErrorResponse(IF error.isError THEN error.message
                           ELSE <<"Unknown error occurred">>))

\* lines 224-303
parseReceipt(env, dev) ==
    IF parseReceiptTry(env, dev).threw
    THEN parseReceiptCatch(parseReceiptTry(env, dev))
    ELSE parseReceiptTry(env, dev)

\* ------------------------------------------------------------------------
\* parseReceiptWithRetry, lines 308-351
\* ------------------------------------------------------------------------

DefaultMaxRetries == 3
MaxRetriesBound == 3

\* Mutant of HasData: only a total ends the loop.
HasDataTotalOnly(result) == result.total.t # "null"

\* line 319
HasData(result) == result.total.t # "null" \/ Truthy(result.error_message)

\* Mutant of LoopBody: the backoff is awaited after every failed iteration.
LoopBodySleepsOnSoft(att, max, outcome) ==
    IF ~outcome.threw /\ (outcome.val.total.t # "null" \/ Truthy(outcome.val.error_message))
    THEN [returns |-> TRUE, result |-> outcome.val, lastError |-> Null,
          sleeps |-> FALSE, ms |-> 0]
    ELSE [returns |-> FALSE, result |-> outcome.val,
          lastError |-> IF outcome.threw THEN Str(outcome.message)
                        ELSE Str(<<"Failed to extract receipt total">>),
          sleeps |-> att < max, ms |-> (2 ^ att) * 1000]

\* lines 315-334: one iteration of the loop on the completion of the
\* parseReceipt call.  returns: the function returns result; otherwise
\* lastError is assigned and, with sleeps, the backoff of ms is awaited.
LoopBody(att, max, outcome) ==
    IF ~outcome.threw
    THEN IF HasData(outcome.val)
         THEN [returns |-> TRUE, result |-> outcome.val, lastError |-> Null,
               sleeps |-> FALSE, ms |-> 0]
         ELSE [returns |-> FALSE, result |-> outcome.val,
               lastError |-> Str(<<"Failed to extract receipt total">>),
               sleeps |-> FALSE, ms |-> 0]
    ELSE [returns |-> FALSE, result |-> outcome.val,
          lastError |-> Str(outcome.message),
          sleeps |-> att < max, ms |-> (2 ^ att) * 1000]

\* Mutant of FailureResponse: no message when no error was recorded.
FailureResponseNoCause(max, err) ==
    [Response("obj") EXCEPT
        !.merchant_name = Null, !.receipt_date = Null, !.receipt_number = Null,
        !.invoice_type = Str(<<"unknown">>), !.items = ItemList(<<>>),
        !.subtotal = Null, !.tax = Null, !.total = Null,
        !.currency = Str(<<"BDT">>), !.payment_method = Null,
        !.confidence_score = Num(0),
        !.error_message = IF err.t = "null" THEN Null
                          ELSE Str(<<"Failed after ">> \o IntText(max)
                                   \o <<" attempts: ">> \o err.s)]

\* Mutant of FailureResponse: the loop counter is printed, not maxRetries.
FailureResponseLoopCounter(max, err) ==
    [Response("obj") EXCEPT
        !.merchant_name = Null, !.receipt_date = Null, !.receipt_number = Null,
        !.invoice_type = Str(<<"unknown">>), !.items = ItemList(<<>>),
        !.subtotal = Null, !.tax = Null, !.total = Null,
        !.currency = Str(<<"BDT">>), !.payment_method = Null,
        !.confidence_score = Num(0),
        !.error_message = Str(<<"Failed after ">> \o IntText(max + 1) \o <<" attempts: ">>
                              \o (IF err.t = "null" THEN <<"undefined">> ELSE err.s))]

\* lines 337-350
FailureResponse(max, err) ==
    [Response("obj") EXCEPT
        !.merchant_name = Null, !.receipt_date = Null, !.receipt_number = Null,
        !.invoice_type = Str(<<"unknown">>), !.items = ItemList(<<>>),
        !.subtotal = Null, !.tax = Null, !.total = Null,
        !.currency = Str(<<"BDT">>), !.payment_method = Null,
        !.confidence_score = Num(0),
        !.error_message = Str(<<"Failed after ">> \o IntText(max) \o <<" attempts: ">>
                              \o (IF err.t = "null" THEN <<"undefined">> ELSE err.s))]

InitRetry ==
    /\ device \in Devices
    /\ nin = Response("undef") /\ nout = NotCalled /\ npc = "off"
    /\ pc = "idle" /\ maxRetries = 0 /\ attempt = 0 /\ lastError = Null
    /\ delays = <<>> /\ log = <<>> /\ last = Response("undef")
    /\ ret = Response("undef") /\ via = "none"
    /\ image = NoImage /\ validation = NoValidation /\ cstate = "off"
    /\ errorMessage = Null /\ stored = {} /\ processedReceipt = NoReceipt
    /\ ExportIdle /\ started = <<>> /\ DbIdle /\ OtaIdle

\* parseReceiptWithRetry(imageUri, m), or parseReceiptWithRetry(imageUri)
\* with the default; lines 308-314
Call ==
    /\ pc = "idle"
    /\ \E m \in (0..MaxRetriesBound) \cup {DefaultMaxRetries} : maxRetries' = m
    /\ attempt' = 1
    /\ lastError' = Null
    /\ pc' = "loop"
    /\ UNCHANGED <<device, delays, log, last, ret, via>>
    /\ UNCHANGED normVars
    /\ UNCHANGED captureVars
    /\ UNCHANGED appVars

\* Mutant of LoopTest: one more iteration is allowed.
LoopTestOneMore(att, max) == att <= max + 1

\* line 314: attempt <= maxRetries
LoopTest(att, max) == att <= max

\* One iteration: the parseReceipt call, the test of its result, and the
\* backoff sleep of the catch block; lines 314-335.  at is where the
\* function stands when the parseReceipt call completes.
AttemptAt(at, envs) ==
    /\ pc = at
    /\ LoopTest(attempt, maxRetries)
    /\ \E env \in envs :
        LET outcome == parseReceipt(env, device)
            step == LoopBody(attempt, maxRetries, outcome)
        IN /\ log' = Append(log, [kind |-> env.kind, fetched |-> Fetches(env),
                                  base64Len |-> env.base64Len,
                                  cause |-> parseReceiptTry(env, device),
                                  threw |-> outcome.threw, result |-> outcome.val])
           /\ last' = outcome.val
           /\ IF step.returns
              THEN /\ ret' = step.result
                   /\ via' = "result"
                   /\ pc' = "done"
                   /\ UNCHANGED <<attempt, lastError, delays>>
              ELSE /\ lastError' = step.lastError
                   /\ delays' = IF step.sleeps THEN Append(delays, <<attempt, step.ms>>)
                                ELSE delays
                   /\ attempt' = attempt + 1
                   /\ pc' = "loop"
                   /\ UNCHANGED <<ret, via>>
    /\ UNCHANGED <<device, maxRetries>>
    /\ UNCHANGED normVars

AttemptWith(envs) == AttemptAt("loop", envs)

Attempt ==
    /\ AttemptWith(Envs)
    /\ UNCHANGED captureVars
    /\ UNCHANGED appVars

\* The loop is over: lines 337-350
Exhausted ==
    /\ pc = "loop"
    /\ ~LoopTest(attempt, maxRetries)
    /\ ret' = FailureResponse(maxRetries, lastError)
    /\ via' = "exhausted"
    /\ pc' = "done"
    /\ UNCHANGED <<device, maxRetries, attempt, lastError, delays, log, last>>
    /\ UNCHANGED normVars
    /\ UNCHANGED captureVars
    /\ UNCHANGED appVars

Next == Call \/ Attempt \/ Exhausted

Spec == InitRetry /\ [][Next]_vars

\* ------------------------------------------------------------------------
\* parseReceiptWithRetry with the await of line 316 as a step of its own
\* ------------------------------------------------------------------------

\* The loop test passes and parseReceipt(imageUri) is called; lines 314-316
BeginAttempt ==
    /\ pc = "loop"
    /\ LoopTest(attempt, maxRetries)
    /\ pc' = "await"
    /\ started' = Append(started, attempt)
    /\ UNCHANGED <<device, maxRetries, attempt, lastError, delays, log, last, ret, via>>
    /\ UNCHANGED <<normVars, captureVars, exportVars, dbVars, otaVars>>

\* The awaited call settles and the rest of the iteration runs; lines 316-335
CompleteAttempt ==
    /\ AttemptAt("await", Envs)
    /\ UNCHANGED captureVars
    /\ UNCHANGED appVars

NextSeq == Call \/ BeginAttempt \/ CompleteAttempt \/ Exhausted

\* The event loop runs every continuation that is ready, and every
\* parseReceipt call settles.
SpecSeq ==
    /\ InitRetry /\ [][NextSeq]_vars
    /\ WF_vars(BeginAttempt) /\ WF_vars(CompleteAttempt) /\ WF_vars(Exhausted)

\* ------------------------------------------------------------------------
\* validateImage, lines 425-460
\* ------------------------------------------------------------------------

MaxFileSize == 20 * 1024 * 1024
MaxPixels == 33177600

\* An image file as the probes see it.  bytes is the file's length;
\* reportsSize: fileInfo has a size; infoThrows: getInfoAsync throws;
\* sizeRejects: RNImage.getSize calls its failure callback; isError and
\* message describe the value thrown or passed to that callback.
Image(bytes, width, height) ==
    [uri |-> "file:///receipt.jpg", infoThrows |-> FALSE, exists |-> TRUE,
     reportsSize |-> TRUE, bytes |-> bytes, sizeRejects |-> FALSE,
     width |-> width, height |-> height, isError |-> TRUE, message |-> <<>>]

\* The value a failing probe of img throws.
ProbeThrow(img) ==
    IF img.isError THEN Thrown(img.message) ELSE ThrownValue(img.message)

\* line 438: (fileInfo as ...).size || 0
SizeOf(img) == IF img.reportsSize THEN img.bytes ELSE 0

\* lines 453-459: the catch block
validateImageCatch(error) ==
    [valid |-> FALSE,
     error |-> IF error.isError THEN Str(error.message)
               ELSE Str(<<"Failed to validate image">>)]

\* Mutant of validateImage: the limits themselves are rejected.
validateImageInclusive(img) ==
    IF img.infoThrows THEN validateImageCatch(ProbeThrow(img))
    ELSE IF ~img.exists THEN [valid |-> FALSE, error |-> Str(<<"Image file not found">>)]
    ELSE IF SizeOf(img) >= MaxFileSize
    THEN [valid |-> FALSE, error |-> Str(<<"Image file is too large (max 20MB)">>)]
    ELSE IF img.sizeRejects THEN validateImageCatch(ProbeThrow(img))
    ELSE IF img.width * img.height >= MaxPixels
    THEN [valid |-> FALSE, error |-> Str(<<"Image resolution too high (max 33 megapixels)">>)]
    ELSE [valid |-> TRUE, error |-> Undef]

\* Mutant of validateImage: every caught failure gets the fixed text.
validateImageFixedText(img) ==
    IF img.infoThrows \/ (img.exists /\ SizeOf(img) <= MaxFileSize /\ img.sizeRejects)
    THEN [valid |-> FALSE, error |-> Str(<<"Failed to validate image">>)]
    ELSE IF ~img.exists THEN [valid |-> FALSE, error |-> Str(<<"Image file not found">>)]
    ELSE IF SizeOf(img) > MaxFileSize
    THEN [valid |-> FALSE, error |-> Str(<<"Image file is too large (max 20MB)">>)]
    ELSE IF img.width * img.height > MaxPixels
    THEN [valid |-> FALSE, error |-> Str(<<"Image resolution too high (max 33 megapixels)">>)]
    ELSE [valid |-> TRUE, error |-> Undef]

\* lines 425-460
validateImage(img) ==
    IF img.infoThrows THEN validateImageCatch(ProbeThrow(img))
    ELSE IF ~img.exists THEN [valid |-> FALSE, error |-> Str(<<"Image file not found">>)]
    ELSE IF SizeOf(img) > MaxFileSize
    THEN [valid |-> FALSE, error |-> Str(<<"Image file is too large (max 20MB)">>)]
    ELSE IF img.sizeRejects THEN validateImageCatch(ProbeThrow(img))
    ELSE IF img.width * img.height > MaxPixels
    THEN [valid |-> FALSE, error |-> Str(<<"Image resolution too high (max 33 megapixels)">>)]
    ELSE [valid |-> TRUE, error |-> Undef]

\* ------------------------------------------------------------------------
\* The Capture Screen: handleCapture
\* ------------------------------------------------------------------------

\* File lengths: small, around 4 MB of base64 text, around 4 MB of decoded
\* bytes, and around the 20 MB ceiling.
FileSizes == {768, 3145731, 4194303, 4194306, 4500000, MaxFileSize, MaxFileSize + 1}

\* Width and height: small, 8K (exactly MaxPixels), and over it.
Dimensions == {<<1024, 768>>, <<7680, 4320>>, <<MaxPixels + 1, 1>>, <<7681, 4320>>}

Images ==
    {Image(b, d[1], d[2]) : b \in FileSizes, d \in Dimensions}
    \cup {[Image(MaxFileSize + 1, d[1], d[2]) EXCEPT !.reportsSize = FALSE] : d \in Dimensions}
    \cup {[Image(b, d[1], d[2]) EXCEPT !.exists = FALSE, !.reportsSize = FALSE] :
            b \in {768, MaxFileSize + 1}, d \in {<<1024, 768>>, <<7681, 4320>>}}
    \cup {[Image(b, 1024, 768) EXCEPT !.infoThrows = TRUE, !.isError = e, !.message = m] :
            b \in {768, MaxFileSize + 1}, e \in BOOLEAN,
            m \in {<<"File is not readable">>, <<>>}}
    \cup {[Image(b, 0, 0) EXCEPT !.sizeRejects = TRUE, !.isError = e, !.message = m] :
            b \in {768, MaxFileSize + 1}, e \in BOOLEAN,
            m \in {<<"Failed to get size">>, <<>>}}

\* What a parseReceipt call can meet when it works on img: the file has
\* img's length; it may have been removed since it was validated.
ImageEnvs(img) ==
    {[e EXCEPT !.base64Len = Base64LengthOf(img.bytes)] :
        e \in {x \in Envs : x.base64Len = Env("reply").base64Len}}

\* Mutant of ReceiptInput: the total is 0 whatever was extracted.
ReceiptInputZeroTotal(result, imageUri) ==
    [merchant_name |-> result.merchant_name,
     receipt_date |-> result.receipt_date,
     receipt_number |-> result.receipt_number,
     invoice_type |-> result.invoice_type,
     items |-> result.items,
     subtotal |-> result.subtotal,
     tax |-> result.tax,
     total |-> Whole(0),
     currency |-> result.currency,
     payment_method |-> result.payment_method,
     confidence_score |-> result.confidence_score,
     image_uri |-> imageUri,
     raw_text |-> Null,
     error_message |-> IF result.error_message.t \in {"null", "undef"} THEN Null
                       ELSE result.error_message]

\* part_001 lines 60-75: the record handed to createReceipt
ReceiptInput(result, imageUri) ==
    [merchant_name |-> result.merchant_name,
     receipt_date |-> result.receipt_date,
     receipt_number |-> result.receipt_number,
     invoice_type |-> result.invoice_type,
     items |-> result.items,
     subtotal |-> result.subtotal,
     tax |-> result.tax,
     total |-> IF result.total.t \in {"null", "undef"} THEN Whole(0) ELSE result.total,
     currency |-> result.currency,
     payment_method |-> result.payment_method,
     confidence_score |-> result.confidence_score,
     image_uri |-> imageUri,
     raw_text |-> Null,
     error_message |-> IF result.error_message.t \in {"null", "undef"} THEN Null
                       ELSE result.error_message]

\* ------------------------------------------------------------------------
\* The receipts table, storage.ts
\* ------------------------------------------------------------------------

\* generateId(): `receipt_${Date.now()}_${random}`, lines 86-88
Ids == {"receipt_1736676000000_k3x9q2a", "receipt_1736676000000_p0d41mz"}

\* new Date().toISOString(), line 96
Times == {"2025-01-12T10:00:00.000Z", "2025-01-12T10:01:00.000Z"}

\* lines 30-49: the columns declared NOT NULL whose value may be missing;
\* a missing value is bound as NULL.
NotNullColumns(r) ==
    /\ r.total.t \notin {"null", "undef"}
    /\ r.invoice_type.t \notin {"null", "undef"}
    /\ r.currency.t \notin {"null", "undef"}
    /\ r.items.t \notin {"undef"}

\* lines 98-102: { ...input, id, created_at }
NewReceipt(input, id, created_at) == [id |-> id, created_at |-> created_at] @@ input

\* A statement's outcome: the error it throws, or the table after it.
Rejects(msg, table) ==
    [threw |-> TRUE, isError |-> TRUE, message |-> msg, receipt |-> NoReceipt, table |-> table]

\* lines 93-131, after getDb(): INSERT INTO receipts, id is the PRIMARY KEY
createReceipt(input, id, created_at, table) ==
    IF \E q \in table : q.id = id
    THEN Rejects(<<"UNIQUE constraint failed: receipts.id">>, table)
    ELSE IF ~NotNullColumns(NewReceipt(input, id, created_at))
    THEN Rejects(<<"NOT NULL constraint failed">>, table)
    ELSE [threw |-> FALSE, isError |-> FALSE, message |-> <<>>,
          receipt |-> NewReceipt(input, id, created_at),
          table |-> table \cup {NewReceipt(input, id, created_at)}]

\* lines 238-242: { ...existing, ...updates, items: updates.items ?? existing.items }
Updated(existing, updates) ==
    [f \in DOMAIN existing \cup DOMAIN updates |->
        IF f = "items"
        THEN IF "items" \in DOMAIN updates /\ updates.items.t \notin {"null", "undef"}
             THEN updates.items ELSE existing.items
        ELSE IF f \in DOMAIN updates THEN updates[f] ELSE existing[f]]

\* Mutant of StoredAfterUpdate: every field of the merged record is written.
StoredAfterUpdateAll(existing, updated) == updated

\* lines 244-279: UPDATE receipts SET <the fourteen columns> WHERE id = ?
\* writes neither id nor created_at.
StoredAfterUpdate(existing, updated) ==
    [f \in DOMAIN existing |->
        IF f \in {"id", "created_at"} THEN existing[f] ELSE updated[f]]

\* lines 229-281, after getDb()
updateReceipt(id, updates, table) ==
    IF ~\E q \in table : q.id = id
    THEN [threw |-> FALSE, isError |-> FALSE, message |-> <<>>,
          receipt |-> NoReceipt, table |-> table]
    ELSE LET existing == CHOOSE q \in table : q.id = id
             updated == Updated(existing, updates)
         IN IF ~NotNullColumns(updated)
            THEN Rejects(<<"NOT NULL constraint failed">>, table)
            ELSE [threw |-> FALSE, isError |-> FALSE, message |-> <<>>,
                  receipt |-> updated,
                  table |-> (table \ {existing})
                            \cup {StoredAfterUpdate(existing, updated)}]

\* lines 286-292: DELETE FROM receipts WHERE id = ?
deleteReceipt(id, table) == {q \in table : q.id # id}

\* getDb() cannot open the database: the error initDatabase rethrows.
DbFailures ==
    {Thrown(<<"database is locked">>), Thrown(<<>>), ThrownValue(<<"database is locked">>)}

\* A receipt saved earlier.
EarlierReceipt ==
    NewReceipt([merchant_name |-> Str(<<"Shwapno">>), receipt_date |-> Null,
                receipt_number |-> Null, invoice_type |-> Str(<<"retail">>),
                items |-> ItemList(<<>>), subtotal |-> Null, tax |-> Null,
                total |-> Whole(500), currency |-> Str(<<"BDT">>),
                payment_method |-> Null, confidence_score |-> Num(9200),
                image_uri |-> "file:///earlier.jpg", raw_text |-> Null,
                error_message |-> Null],
               "receipt_1736676000000_k3x9q2a", "2025-01-12T10:00:00.000Z")


\* The phones the screen runs on: Dhaka time, either Date parser.
CaptureDevices == {d \in Devices : d.offset = 360}

InitCapture ==
    /\ device \in CaptureDevices
    /\ nin = Response("undef") /\ nout = NotCalled /\ npc = "off"
    /\ pc = "idle" /\ maxRetries = 0 /\ attempt = 0 /\ lastError = Null
    /\ delays = <<>> /\ log = <<>> /\ last = Response("undef")
    /\ ret = Response("undef") /\ via = "none"
    /\ image = NoImage /\ validation = NoValidation /\ cstate = "idle"
    /\ errorMessage = Null /\ stored \in {{}, {EarlierReceipt}} /\ processedReceipt = NoReceipt
    /\ ExportIdle /\ started = <<>> /\ DbIdle /\ OtaIdle

\* handleCapture(imageUri) up to its await of parseReceiptWithRetry;
\* part_001 lines 42-57
HandleCapture ==
    /\ cstate = "idle"
    /\ \E img \in Images :
        /\ image' = img
        /\ validation' = validateImage(img)
        /\ IF ~validateImage(img).valid
           THEN /\ errorMessage' = OrElse(validateImage(img).error, Str(<<"Invalid image">>))
                /\ cstate' = "error"
                /\ UNCHANGED <<pc, maxRetries, attempt, lastError>>
           ELSE /\ errorMessage' = Null
                /\ cstate' = "processing"
                /\ pc' = "loop"
                /\ maxRetries' = DefaultMaxRetries
                /\ attempt' = 1
                /\ lastError' = Null
    /\ UNCHANGED <<device, delays, log, last, ret, via, stored, processedReceipt>>
    /\ UNCHANGED normVars
    /\ UNCHANGED appVars

\* One iteration of parseReceiptWithRetry(imageUri) on the captured image.
CaptureAttempt ==
    /\ cstate = "processing"
    /\ AttemptWith(ImageEnvs(image))
    /\ UNCHANGED captureVars
    /\ UNCHANGED appVars

\* handleCapture after parseReceiptWithRetry has returned; part_001 lines
\* 59-87.  createReceipt inserts the row, or getDb or the INSERT throws and
\* the catch block shows the error.
SaveReceipt ==
    /\ cstate = "processing"
    /\ pc = "done"
    /\ \E id \in Ids, t \in Times :
        \E done \in {createReceipt(ReceiptInput(ret, image.uri), id, t, stored)}
                    \cup {Rejects(f.message, stored) : f \in {x \in DbFailures : x.isError}}
                    \cup {[Rejects(f.message, stored) EXCEPT !.isError = FALSE] :
                            f \in {x \in DbFailures : ~x.isError}} :
            IF ~done.threw
            THEN /\ stored' = done.table
                 /\ processedReceipt' = done.receipt
                 /\ cstate' = "success"
                 /\ UNCHANGED errorMessage
            ELSE /\ errorMessage' = IF done.isError THEN Str(done.message)
                                    ELSE Str(<<"Failed to process receipt">>)
                 /\ cstate' = "error"
                 /\ UNCHANGED <<stored, processedReceipt>>
    /\ UNCHANGED <<device, image, validation>>
    /\ UNCHANGED normVars
    /\ UNCHANGED retryVars
    /\ UNCHANGED appVars

\* Mutant of SaveWithErrorInput: the record carries no error_message.
SaveWithErrorInputNoMessage(imageUri, message) ==
    [merchant_name |-> Null, receipt_date |-> Null, receipt_number |-> Null,
     invoice_type |-> Str(<<"unknown">>), items |-> ItemList(<<>>),
     subtotal |-> Null, tax |-> Null, total |-> Whole(0),
     currency |-> Str(<<"BDT">>), payment_method |-> Null,
     confidence_score |-> Num(0), image_uri |-> imageUri, raw_text |-> Null,
     error_message |-> Null]

\* part_001 lines 130-145: the record "Save Anyway" hands to createReceipt
SaveWithErrorInput(imageUri, message) ==
    [merchant_name |-> Null, receipt_date |-> Null, receipt_number |-> Null,
     invoice_type |-> Str(<<"unknown">>), items |-> ItemList(<<>>),
     subtotal |-> Null, tax |-> Null, total |-> Whole(0),
     currency |-> Str(<<"BDT">>), payment_method |-> Null,
     confidence_score |-> Num(0), image_uri |-> imageUri, raw_text |-> Null,
     error_message |-> OrElse(message, Str(<<"Failed to process receipt">>))]

\* handleSaveWithError, part_001 lines 127-161, pressed in the error
\* state.  When createReceipt throws, an alert is shown and the screen's
\* state stays as it is.
HandleSaveWithError ==
    /\ cstate = "error"
    /\ image # NoImage
    /\ \E id \in Ids, t \in Times :
        LET done == createReceipt(SaveWithErrorInput(image.uri, errorMessage), id, t, stored)
        IN /\ ~done.threw
           /\ stored' = done.table
           /\ processedReceipt' = done.receipt
           /\ cstate' = "success"
    /\ UNCHANGED <<device, image, validation, errorMessage>>
    /\ UNCHANGED normVars
    /\ UNCHANGED retryVars
    /\ UNCHANGED appVars

NextCapture ==
    HandleCapture \/ CaptureAttempt \/ Exhausted \/ SaveReceipt \/ HandleSaveWithError

SpecCapture == InitCapture /\ [][NextCapture]_vars

\* ------------------------------------------------------------------------
\* The storage module called directly: create, update, delete
\* ------------------------------------------------------------------------

\* Records handed to createReceipt: an extracted receipt, a failed scan,
\* "Save Anyway", and a record whose total was left null.
ReceiptInputs ==
    {ReceiptInput(GoodReply, "file:///receipt.jpg"),
     ReceiptInput(ErrorResponse(<<"No response from Groq API">>), "file:///receipt.jpg"),
     SaveWithErrorInput("file:///blurred.jpg", Null),
     [ReceiptInput(ErrorResponse(<<"No response from Groq API">>), "file:///receipt.jpg")
        EXCEPT !.total = Null]}

\* Partial<ReceiptInput>: no field, some fields, a field set to undefined,
\* and a whole Receipt (its id and created_at come along).
UpdateValues ==
    {<<>>,
     [total |-> Whole(750)],
     [total |-> Undef],
     [merchant_name |-> Str(<<"Agora">>), total |-> Whole(0)],
     [items |-> ItemList(<<Item(Str(<<"Rice">>), Whole(2), Whole(120))>>)],
     [items |-> NoItems, error_message |-> Null],
     [EarlierReceipt EXCEPT !.created_at = "2025-01-12T10:01:00.000Z"],
     [EarlierReceipt EXCEPT !.id = "receipt_1736676060000_7htw2c9", !.total = Null]}

InitStore ==
    /\ device = [offset |-> 360, legacy |-> FALSE]
    /\ nin = Response("undef") /\ nout = NotCalled /\ npc = "off"
    /\ pc = "idle" /\ maxRetries = 0 /\ attempt = 0 /\ lastError = Null
    /\ delays = <<>> /\ log = <<>> /\ last = Response("undef")
    /\ ret = Response("undef") /\ via = "none"
    /\ image = NoImage /\ validation = NoValidation /\ cstate = "off"
    /\ errorMessage = Null /\ stored = {} /\ processedReceipt = NoReceipt
    /\ ExportIdle /\ started = <<>> /\ DbIdle /\ OtaIdle

\* createReceipt(input); a rejected INSERT leaves the table as it was.
CreateReceipt ==
    /\ \E input \in ReceiptInputs, id \in Ids, t \in Times :
        stored' = createReceipt(input, id, t, stored).table
    /\ UNCHANGED <<device, image, validation, cstate, errorMessage, processedReceipt>>
    /\ UNCHANGED normVars
    /\ UNCHANGED retryVars
    /\ UNCHANGED appVars

\* updateReceipt(id, updates)
UpdateReceipt ==
    /\ \E id \in Ids, updates \in UpdateValues :
        stored' = updateReceipt(id, updates, stored).table
    /\ UNCHANGED <<device, image, validation, cstate, errorMessage, processedReceipt>>
    /\ UNCHANGED normVars
    /\ UNCHANGED retryVars
    /\ UNCHANGED appVars

\* deleteReceipt(id)
DeleteReceipt ==
    /\ \E id \in Ids : stored' = deleteReceipt(id, stored)
    /\ UNCHANGED <<device, image, validation, cstate, errorMessage, processedReceipt>>
    /\ UNCHANGED normVars
    /\ UNCHANGED retryVars
    /\ UNCHANGED appVars

NextStore == CreateReceipt \/ UpdateReceipt \/ DeleteReceipt

SpecStore == InitStore /\ [][NextStore]_vars

\* ------------------------------------------------------------------------
\* storage.ts: the connection, lines 17-81 and 150-153.  Every await is a
\* point where other calls run.
\* ------------------------------------------------------------------------

\* The calls the dashboard makes: initDatabase() from its effect, and
\* getReceiptStats() and getRecentReceipts() side by side from loadData.
Callers == {"initDatabase", "getReceiptStats", "getRecentReceipts"}

\* Calls that catch a failing getDb, reset the connection and try once more.
Retrying == {"getReceiptStats", "getRecentReceipts"}

\* Where a call stands: "idle"; "opening", awaiting openDatabaseAsync in
\* initDatabase (line 29); "creating", awaiting execAsync (line 32);
\* "afterInit", awaiting initDatabase in getDb (line 71); "reopening",
\* awaiting openDatabaseAsync in getDb (line 76); "done"; "failed".
At(where, retried) == [pc |-> where, retried |-> retried]

InitDb ==
    /\ device = [offset |-> 360, legacy |-> FALSE]
    /\ nin = Response("undef") /\ nout = NotCalled /\ npc = "off"
    /\ pc = "idle" /\ maxRetries = 0 /\ attempt = 0 /\ lastError = Null
    /\ delays = <<>> /\ log = <<>> /\ last = Response("undef")
    /\ ret = Response("undef") /\ via = "none"
    /\ image = NoImage /\ validation = NoValidation /\ cstate = "off"
    /\ errorMessage = Null /\ stored = {} /\ processedReceipt = NoReceipt
    /\ ExportIdle /\ started = <<>> /\ OtaIdle
    /\ db = "null" /\ isInitialized = FALSE
    /\ procs = [p \in Callers |-> At("idle", FALSE)]

DbUnchanged ==
    UNCHANGED <<device, normVars, retryVars, captureVars, exportVars, started, otaVars>>

\* lines 23-29 and 68-72: a call starts and runs to its first await.
\* initDatabase returns at once when isInitialized && db; getDb returns db
\* at once unless !db || !isInitialized.
BeginCall(p) ==
    /\ procs[p].pc \in {"idle", "done", "failed"}
    /\ procs' = [procs EXCEPT ![p] =
                    IF isInitialized /\ db # "null" THEN At("done", FALSE)
                    ELSE At("opening", FALSE)]
    /\ UNCHANGED <<db, isInitialized>>
    /\ DbUnchanged

\* An error leaves getDb: a retrying call that has not retried calls
\* resetConnection() and getDb() again, which awaits a new open.
AfterThrow(p) ==
    IF p \in Retrying /\ ~procs[p].retried THEN At("opening", TRUE) ELSE At("failed", FALSE)

\* line 29: openDatabaseAsync settles.  Resolved: db is assigned and
\* execAsync is awaited.  Rejected: the catch block of lines 57-62.
OpenSettles(p) ==
    /\ procs[p].pc = "opening"
    /\ \/ /\ db' = "open"
          /\ procs' = [procs EXCEPT ![p] = At("creating", procs[p].retried)]
          /\ UNCHANGED isInitialized
       \/ /\ db' = "null"
          /\ isInitialized' = FALSE
          /\ procs' = [procs EXCEPT ![p] = AfterThrow(p)]
    /\ DbUnchanged

\* lines 32-54: execAsync settles.  Resolved: line 56, and
\* initDatabase returns.  Rejected: the catch block of lines 57-62.
ExecSettles(p) ==
    /\ procs[p].pc = "creating"
    /\ \/ /\ isInitialized' = TRUE
          /\ procs' = [procs EXCEPT ![p] =
                          IF p \in Retrying THEN At("afterInit", procs[p].retried)
                          ELSE At("done", FALSE)]
          /\ UNCHANGED db
       \/ /\ db' = "null"
          /\ isInitialized' = FALSE
          /\ procs' = [procs EXCEPT ![p] = AfterThrow(p)]
    /\ DbUnchanged

\* lines 74-80: getDb goes on after initDatabase: if (!db) it opens afresh.
AfterInit(p) ==
    /\ procs[p].pc = "afterInit"
    /\ procs' = [procs EXCEPT ![p] =
                    IF db = "null" THEN At("reopening", procs[p].retried)
                    ELSE At("done", FALSE)]
    /\ UNCHANGED <<db, isInitialized>>
    /\ DbUnchanged

\* lines 76-77: the open in getDb settles.  Rejected: getDb throws; the
\* caller's catch calls resetConnection() (lines 150-153) before it retries.
ReopenSettles(p) ==
    /\ procs[p].pc = "reopening"
    /\ \/ /\ db' = "open"
          /\ isInitialized' = TRUE
          /\ procs' = [procs EXCEPT ![p] = At("done", FALSE)]
       \/ /\ procs' = [procs EXCEPT ![p] = AfterThrow(p)]
          /\ IF ~procs[p].retried
             THEN db' = "null" /\ isInitialized' = FALSE
             ELSE UNCHANGED <<db, isInitialized>>
    /\ DbUnchanged

NextDb ==
    \E p \in Callers :
        BeginCall(p) \/ OpenSettles(p) \/ ExecSettles(p) \/ AfterInit(p) \/ ReopenSettles(p)

SpecDb == InitDb /\ [][NextDb]_vars

\* ------------------------------------------------------------------------
\* use-ota-updates.ts: useOTAUpdates as the root layout uses it
\* (_layout.tsx lines 16-32, checkOnMount: true, no checkInterval).
\* ------------------------------------------------------------------------

\* The hook's calls: checkForUpdate() from its mount effect's timer (lines
\* 166-177) and checkAndApplyUpdate() from the layout's timer.
UpdateCallers == {"checkOnMount", "checkAndApplyUpdate"}

\* Updates.checkForUpdateAsync: update.isAvailable, or not, or a rejection.
CheckOutcomes == {"available", "none", "rejects"}

\* Updates.fetchUpdateAsync: result.isNew, or not, or a rejection.
FetchOutcomes == {"new", "old", "rejects"}

MaxFetches == 2

\* lines 80 and 130: error instanceof Error ? error : new Error(String(error))
UpdateError == [t |-> "error", n |-> 0, s |-> <<"Failed", "to", "check", "for", "update">>]

\* A call in progress: where it stands, the state constant of the render
\* whose functions it runs (fetchAndApplyUpdate is not memoised and reads
\* that constant), and checkAndApplyUpdate's local hasUpdate.
UpdateCall(where, state, hasUpdate) == [pc |-> where, state |-> state, hasUpdate |-> hasUpdate]

InitOta ==
    /\ device = [offset |-> 360, legacy |-> FALSE]
    /\ nin = Response("undef") /\ nout = NotCalled /\ npc = "off"
    /\ pc = "idle" /\ maxRetries = 0 /\ attempt = 0 /\ lastError = Null
    /\ delays = <<>> /\ log = <<>> /\ last = Response("undef")
    /\ ret = Response("undef") /\ via = "none"
    /\ image = NoImage /\ validation = NoValidation /\ cstate = "off"
    /\ errorMessage = Null /\ stored = {} /\ processedReceipt = NoReceipt
    /\ ExportIdle /\ started = <<>> /\ DbIdle
    /\ isEnabled \in BOOLEAN
    /\ ustate = InitialUpdateState /\ rendered = InitialUpdateState
    /\ calls = [c \in UpdateCallers |-> UpdateCall("idle", InitialUpdateState, FALSE)]
    /\ fetchCalls = 0 /\ reloads = 0

OtaUnchanged ==
    UNCHANGED <<device, normVars, retryVars, captureVars, exportVars, started, dbVars, isEnabled>>

\* A state change is followed by a render, which makes new functions that
\* see the new state.
Render ==
    /\ rendered # ustate
    /\ reloads = 0
    /\ rendered' = ustate
    /\ UNCHANGED <<ustate, calls, fetchCalls, reloads>>
    /\ OtaUnchanged

\* The timers fire.  The hook's 2000 ms timer is set once, on mount; the
\* layout's 3000 ms timer is set anew after every render and calls the
\* checkAndApplyUpdate of that render.  Both only when isEnabled.
\* checkForUpdate, lines 52-61: setState isChecking, then the await.
BeginCheck(c) ==
    /\ isEnabled
    /\ reloads = 0
    /\ fetchCalls < MaxFetches
    /\ IF c = "checkOnMount" THEN calls[c].pc = "idle"
       ELSE calls[c].pc \in {"idle", "done"} /\ calls["checkOnMount"].pc # "idle"
    /\ ustate' = [ustate EXCEPT !.isChecking = TRUE, !.error = Null]
    /\ calls' = [calls EXCEPT ![c] = UpdateCall("checking", rendered, FALSE)]
    /\ UNCHANGED <<rendered, fetchCalls, reloads>>
    /\ OtaUnchanged

\* line 100: state.isUpdateAvailable, the state constant of the call's render
UpdateAvailableSeen(call, found) == call.state.isUpdateAvailable

\* checkForUpdate, lines 61-88, and, where it was awaited by
\* checkAndApplyUpdate (lines 144-150), fetchAndApplyUpdate up to its await
\* (lines 94-108).
CheckSettles(c) ==
    /\ calls[c].pc = "checking"
    /\ \E outcome \in CheckOutcomes :
         LET checked ==
                 CASE outcome = "available" ->
                        [ustate EXCEPT !.isUpdateAvailable = TRUE, !.isChecking = FALSE]
                   [] outcome = "none" ->
                        [ustate EXCEPT !.isUpdateAvailable = FALSE, !.isChecking = FALSE]
                   [] OTHER ->
                        [ustate EXCEPT !.isChecking = FALSE, !.error = UpdateError]
             hasUpdate == outcome = "available"
         IN  IF c = "checkAndApplyUpdate" /\ hasUpdate
             THEN IF ~UpdateAvailableSeen(calls[c], hasUpdate)
                  THEN /\ ustate' = checked
                       /\ calls' = [calls EXCEPT ![c] = UpdateCall("done", calls[c].state, TRUE)]
                       /\ UNCHANGED fetchCalls
                  ELSE /\ ustate' = [checked EXCEPT !.isChecking = TRUE, !.error = Null]
                       /\ calls' = [calls EXCEPT ![c] = UpdateCall("fetching", calls[c].state, TRUE)]
                       /\ fetchCalls' = fetchCalls + 1
             ELSE /\ ustate' = checked
                  /\ calls' = [calls EXCEPT ![c] = UpdateCall("done", calls[c].state, FALSE)]
                  /\ UNCHANGED fetchCalls
    /\ UNCHANGED <<rendered, reloads>>
    /\ OtaUnchanged

\* fetchAndApplyUpdate, lines 108-138: fetchUpdateAsync settles; a new
\* update is marked pending and Updates.reloadAsync() is called.
FetchSettles(c) ==
    /\ calls[c].pc = "fetching"
    /\ \E outcome \in FetchOutcomes :
         /\ ustate' =
               CASE outcome = "new" ->
                      [ustate EXCEPT !.isUpdatePending = TRUE, !.isChecking = FALSE]
                 [] outcome = "old" ->
                      [ustate EXCEPT !.isUpdateAvailable = FALSE, !.isChecking = FALSE]
                 [] OTHER ->
                      [ustate EXCEPT !.isChecking = FALSE, !.error = UpdateError]
         /\ reloads' = (IF outcome = "new" THEN reloads + 1 ELSE reloads)
    /\ calls' = [calls EXCEPT ![c] = UpdateCall("done", calls[c].state, calls[c].hasUpdate)]
    /\ UNCHANGED <<rendered, fetchCalls>>
    /\ OtaUnchanged

NextOta ==
    \/ Render
    \/ \E c \in UpdateCallers : BeginCheck(c) \/ CheckSettles(c) \/ FetchSettles(c)

SpecOta == InitOta /\ [][NextOta]_vars

\* ------------------------------------------------------------------------
\* export.ts: exportReceipts.  A CSV file is its lines in order; a line is
\* its cells in order, which join(',') separates by commas.  A JSON file
\* is the value handed to JSON.stringify.
\* ------------------------------------------------------------------------

\* lines 76-90; a text is its pieces, with a comma, a quote and a newline
\* each a piece of its own.
escapeCSV(v) ==
    IF v.t \in {"null", "undef"} THEN <<>>
    ELSE LET stringValue == StringOf(v)
             special == \E i \in 1..Len(stringValue) : stringValue[i] \in {",", "\"", "\n"}
             doubled[i \in 0..Len(stringValue)] ==
                 IF i = 0 THEN <<>>
                 ELSE doubled[i - 1] \o (IF stringValue[i] = "\"" THEN <<"\"", "\"">>
                                         ELSE <<stringValue[i]>>)
         IN IF special THEN <<"\"">> \o doubled[Len(stringValue)] \o <<"\"">>
            ELSE stringValue

\* lines 147-163
headers ==
    <<<<"ID">>, <<"Merchant Name">>, <<"Receipt Date">>, <<"Receipt Number">>,
      <<"Invoice Type">>, <<"Item Name">>, <<"Item Quantity">>, <<"Item Price">>,
      <<"Subtotal">>, <<"Tax">>, <<"Total">>, <<"Currency">>, <<"Payment Method">>,
      <<"Confidence Score">>, <<"Created At">>>>

\* lines 171-189: the single row of a receipt without items
RowWithoutItems(receipt) ==
    <<escapeCSV(Str(<<receipt.id>>)), escapeCSV(receipt.merchant_name),
      escapeCSV(receipt.receipt_date), escapeCSV(receipt.receipt_number),
      escapeCSV(receipt.invoice_type), <<>>, <<>>, <<>>,
      escapeCSV(receipt.subtotal), escapeCSV(receipt.tax), escapeCSV(receipt.total),
      escapeCSV(receipt.currency), escapeCSV(receipt.payment_method),
      escapeCSV(receipt.confidence_score), escapeCSV(Str(<<receipt.created_at>>))>>

\* Mutant of ItemRow: the receipt's fields are repeated on every row.
ItemRowRepeating(receipt, i) ==
    <<escapeCSV(Str(<<receipt.id>>)), escapeCSV(receipt.merchant_name),
      escapeCSV(receipt.receipt_date), escapeCSV(receipt.receipt_number),
      escapeCSV(receipt.invoice_type),
      escapeCSV(receipt.items.elems[i].name), escapeCSV(receipt.items.elems[i].quantity),
      escapeCSV(receipt.items.elems[i].price),
      escapeCSV(receipt.subtotal), escapeCSV(receipt.tax), escapeCSV(receipt.total),
      escapeCSV(receipt.currency), escapeCSV(receipt.payment_method),
      escapeCSV(receipt.confidence_score), escapeCSV(Str(<<receipt.created_at>>))>>

\* lines 192-212: the row of item i (from 1; the code counts from 0)
ItemRow(receipt, i) ==
    LET first(v) == IF i = 1 THEN escapeCSV(v) ELSE escapeCSV(Str(<<>>))
    IN <<first(Str(<<receipt.id>>)), first(receipt.merchant_name),
         first(receipt.receipt_date), first(receipt.receipt_number),
         first(receipt.invoice_type),
         escapeCSV(receipt.items.elems[i].name), escapeCSV(receipt.items.elems[i].quantity),
         escapeCSV(receipt.items.elems[i].price),
         first(receipt.subtotal), first(receipt.tax), first(receipt.total),
         first(receipt.currency), first(receipt.payment_method),
         first(receipt.confidence_score), first(Str(<<receipt.created_at>>))>>

\* lines 168-214: the rows of one receipt
ReceiptRows(receipt) ==
    IF Len(receipt.items.elems) = 0 THEN <<RowWithoutItems(receipt)>>
    ELSE [i \in 1..Len(receipt.items.elems) |-> ItemRow(receipt, i)]

\* lines 138-222
RECURSIVE AllReceiptRows(_)
AllReceiptRows(rs) ==
    IF rs = <<>> THEN <<>> ELSE ReceiptRows(Head(rs)) \o AllReceiptRows(Tail(rs))

exportReceiptsToCsv(rs) ==
    [kind |-> "csv", rows |-> <<headers>> \o AllReceiptRows(rs), json |-> <<>>]

\* lines 95-133: the two sections written for a single receipt
exportReceiptToCsv(receipt) ==
    [kind |-> "csv",
     rows |-> <<<<<<"=== RECEIPT SUMMARY ===">>>>,
                <<<<"Field">>, <<"Value">>>>,
                <<<<"Merchant Name">>, escapeCSV(receipt.merchant_name)>>,
                <<<<"Receipt Date">>, escapeCSV(receipt.receipt_date)>>,
                <<<<"Receipt Number">>, escapeCSV(receipt.receipt_number)>>,
                <<<<"Invoice Type">>, escapeCSV(receipt.invoice_type)>>,
                <<<<"Subtotal">>, escapeCSV(receipt.subtotal)>>,
                <<<<"Tax">>, escapeCSV(receipt.tax)>>,
                <<<<"Total">>, escapeCSV(receipt.total)>>,
                <<<<"Currency">>, escapeCSV(receipt.currency)>>,
                <<<<"Payment Method">>, escapeCSV(receipt.payment_method)>>,
                <<<<"Confidence Score">>, escapeCSV(receipt.confidence_score)>>,
                <<<<>>>>,
                <<<<"=== LINE ITEMS ===">>>>,
                <<<<"Item Name">>, <<"Quantity">>, <<"Price">>>>>>
              \o [i \in 1..Len(receipt.items.elems) |->
                    <<escapeCSV(receipt.items.elems[i].name),
                      escapeCSV(receipt.items.elems[i].quantity),
                      escapeCSV(receipt.items.elems[i].price)>>],
     json |-> <<>>]

\* line 62: receipts.reduce((sum, r) => sum + r.total, 0)
RECURSIVE SumOfTotals(_)
SumOfTotals(rs) ==
    IF rs = <<>> THEN 0 ELSE SumOfTotals(SubSeq(rs, 1, Len(rs) - 1)) + rs[Len(rs)].total.n

\* Mutant of exportReceiptsToJson: the aggregate is the first receipt's total.
exportReceiptsToJsonFirstTotal(rs, now) ==
    [kind |-> "json", rows |-> <<>>,
     json |-> [exported_at |-> now, total_receipts |-> Len(rs),
               total_amount |-> IF rs = <<>> THEN Num(0) ELSE rs[1].total,
               receipts |-> rs]]

\* lines 50-71
exportReceiptsToJson(rs, now) ==
    [kind |-> "json", rows |-> <<>>,
     json |-> [exported_at |-> now, total_receipts |-> Len(rs),
               total_amount |-> Num(SumOfTotals(rs)), receipts |-> rs]]

\* lines 33-45
exportReceiptToJson(receipt) == [kind |-> "json", rows |-> <<>>, json |-> receipt]

\* lines 227-240
exportReceipts(rs, fmt, now) ==
    IF fmt = "json"
    THEN IF Len(rs) = 1 THEN exportReceiptToJson(rs[1]) ELSE exportReceiptsToJson(rs, now)
    ELSE IF Len(rs) = 1 THEN exportReceiptToCsv(rs[1]) ELSE exportReceiptsToCsv(rs)

MaxReceipts == 2

\* Stored receipts with no, one and two items; one has a comma and a quote
\* in its texts.
ExportableReceipts ==
    {EarlierReceipt,
     NewReceipt(ReceiptInput(GoodReply, "file:///receipt.jpg"),
                "receipt_1736676000000_p0d41mz", "2025-01-12T10:01:00.000Z"),
     NewReceipt(SaveWithErrorInput("file:///blurred.jpg", Null),
                "receipt_1736676000000_p0d41mz", "2025-01-12T10:00:00.000Z"),
     NewReceipt([ReceiptInput(GoodReply, "file:///receipt.jpg") EXCEPT
                    !.merchant_name = Str(<<"Agora", ",", " Gulshan">>),
                    !.items = ItemList(<<Item(Str(<<"Rice">>), Whole(2), Whole(120)),
                                         Item(Str(<<"5", "\"", " plate">>), Null,
                                              Num(125050))>>),
                    !.total = Num(125050)],
                "receipt_1736676000000_k3x9q2a", "2025-01-12T10:01:00.000Z")}

ReceiptLists == UNION {[1..k -> ExportableReceipts] : k \in 0..MaxReceipts}

InitExport ==
    /\ device = [offset |-> 360, legacy |-> FALSE]
    /\ nin = Response("undef") /\ nout = NotCalled /\ npc = "off"
    /\ pc = "idle" /\ maxRetries = 0 /\ attempt = 0 /\ lastError = Null
    /\ delays = <<>> /\ log = <<>> /\ last = Response("undef")
    /\ ret = Response("undef") /\ via = "none"
    /\ image = NoImage /\ validation = NoValidation /\ cstate = "off"
    /\ errorMessage = Null /\ stored = {} /\ processedReceipt = NoReceipt
    /\ receipts \in ReceiptLists /\ format \in {"json", "csv"} /\ file = NoFile
    /\ started = <<>> /\ DbIdle /\ OtaIdle

\* exportReceipts(receipts, format): the file is written, or the directory
\* or the write fails and the call rejects without a file.
ExportReceipts ==
    /\ file = NoFile
    /\ \E now \in Times, written \in BOOLEAN :
        file' = IF written THEN exportReceipts(receipts, format, now)
                ELSE [NoFile EXCEPT !.kind = "failed"]
    /\ UNCHANGED <<device, receipts, format, started>>
    /\ UNCHANGED <<normVars, retryVars, captureVars, dbVars, otaVars>>

NextExport == ExportReceipts

SpecExport == InitExport /\ [][NextExport]_vars

\* ------------------------------------------------------------------------
\* The retry controller's properties (specification Spec)
\* ------------------------------------------------------------------------

\* The attempts made so far.
Attempts == Len(log)

\* A result whose total is present or whose error_message is set.
ResultHasData(r) ==
    r.total # Null \/ (r.error_message.t = "str" /\ r.error_message.s # <<>>)

\* A parsed result with no total and no error_message.
SoftFailure(r) == r.total = Null /\ ~Truthy(r.error_message)

\* The attempt failed hard: a network exception, a non-success HTTP status,
\* missing content, unparseable JSON, an exception while preparing the request.
HardFailure(entry) ==
    entry.kind \in {"fetchThrows", "httpError", "noContent", "badJson", "jsonRejects",
                    "getInfoThrows", "getSizeRejects", "readThrows"}

\* The text holds "<k> attempts".
MentionsAttempts(toks, k) ==
    \E i \in 1..Len(toks) :
        /\ i + Len(IntText(k)) <= Len(toks)
        /\ SubSeq(toks, i, i + Len(IntText(k))) = IntText(k) \o <<" attempts: ">>

BackoffSchedule(k) == [i \in 1..k |-> <<i, (2 ^ i) * 1000>>]

\* C1: with a remote call that throws on every attempt and maxRetries = 3,
\* the controller makes exactly 3 attempts, sleeps 2000 ms after the first
\* and 4000 ms after the second and not after the third, and returns the
\* failure result whose error_message mentions 3 attempts.
C1_ThrowingCallMakesThreeAttempts ==
    (/\ pc = "done"
     /\ maxRetries = 3
     /\ \A i \in 1..Attempts : log[i].kind = "fetchThrows")
    => (/\ Attempts = 3
        /\ delays = BackoffSchedule(2)
        /\ via = "exhausted"
        /\ ret.error_message.t = "str"
        /\ MentionsAttempts(ret.error_message.s, 3))

\* C2: a hard failure of attempt n < maxRetries does not end the call: the
\* controller sleeps 2^n seconds and goes on to attempt n + 1; a hard
\* failure ends in the failure result only when n = maxRetries.
C2_HardFailureBacksOffAndRetries ==
    (Attempts > 0 /\ HardFailure(log[Attempts]))
    => (/\ Attempts < maxRetries
            => (/\ pc = "loop"
                /\ attempt = Attempts + 1
                /\ delays # <<>>
                /\ delays[Len(delays)] = <<Attempts, (2 ^ Attempts) * 1000>>)
        /\ pc = "done" => Attempts = maxRetries)

\* C3: parseReceiptWithRetry never throws: no parseReceipt call throws into
\* it, whenever it is over the caller holds a result object, and after the
\* attempts are exhausted that result carries a non-null error_message.
C3_AlwaysReturnsAValue ==
    /\ \A i \in 1..Attempts : ~log[i].threw /\ log[i].result.t = "obj"
    /\ pc = "done" => (via \in {"result", "exhausted"} /\ ret.t = "obj")
    /\ (pc = "done" /\ via = "exhausted")
        => (ret.error_message.t = "str" /\ ret.error_message.s # <<>>)

C3_Witness ==
    /\ pc = "done" /\ via = "exhausted" /\ maxRetries = 2 /\ Attempts = 2
    /\ log[1].kind = "readThrows" /\ log[2].kind = "reply"
    /\ ret.t = "obj" /\ ret.error_message.t = "str"

\* C4: when an attempt yields a result with a total or with error_message
\* set, the controller returns exactly that result and makes no further
\* attempt; so a result with error_message set on the first attempt is
\* returned after one attempt.
C4_DataResultIsReturned ==
    (Attempts > 0 /\ ResultHasData(last))
    => (/\ pc = "done"
        /\ via = "result"
        /\ ret = last
        /\ attempt = Attempts)

C4_Witness ==
    /\ pc = "done" /\ Attempts = 1 /\ maxRetries = 3
    /\ last.total = Null
    /\ last.error_message = Str(<<"Image is not a receipt">>)
    /\ ret = last

\* C5: after a soft failure (a parsed result with no total and no
\* error_message) the controller goes to the next iteration without any
\* backoff sleep: no sleep is recorded for an attempt that failed softly.
C5_SoftFailureNoBackoff ==
    /\ \A i \in 1..Attempts :
        SoftFailure(log[i].result) => \A j \in 1..Len(delays) : delays[j][1] # i
    /\ (Attempts > 0 /\ SoftFailure(last) /\ pc = "loop") => attempt = Attempts + 1
    /\ (Attempts > 0 /\ SoftFailure(last) /\ Attempts < maxRetries) => pc = "loop"

C5_Witness ==
    /\ pc = "loop" /\ Attempts = 2 /\ attempt = 3 /\ maxRetries = 3
    /\ log[1].kind = "reply" /\ SoftFailure(log[1].result)
    /\ SoftFailure(last)
    /\ delays = <<>>

\* C6: the result returned after the attempts are exhausted has every
\* nullable field null, no items, invoice_type unknown, currency BDT,
\* confidence_score 0, and an error_message that names the last cause and
\* the number of attempts made.
C6_FailureResultShape ==
    (pc = "done" /\ via = "exhausted")
    => (/\ ret.merchant_name = Null /\ ret.receipt_date = Null
        /\ ret.receipt_number = Null /\ ret.subtotal = Null /\ ret.tax = Null
        /\ ret.total = Null /\ ret.payment_method = Null
        /\ ret.items = ItemList(<<>>)
        /\ ret.invoice_type = Str(<<"unknown">>)
        /\ ret.currency = Str(<<"BDT">>)
        /\ ret.confidence_score = Num(0)
        /\ ret.error_message =
            Str(<<"Failed after ">> \o IntText(Attempts) \o <<" attempts: ">>
                \o (IF Attempts = 0 THEN <<"undefined">>
                    ELSE IF SoftFailure(last) THEN <<"Failed to extract receipt total">>
                    ELSE last.error_message.s)))

C6_Witness ==
    /\ pc = "done" /\ via = "exhausted" /\ Attempts = 3
    /\ MentionsAttempts(ret.error_message.s, 3)

\* ------------------------------------------------------------------------
\* The normalizer's properties (specification SpecNorm)
\* ------------------------------------------------------------------------

\* "YYYY-MM-DD" of a calendar date.
CanonicalDateText(toks) ==
    /\ IsIsoDateText(toks)
    /\ ValidYMD(ParseNat(SubSeq(toks, 1, 4)), ParseNat(SubSeq(toks, 6, 7)),
                ParseNat(SubSeq(toks, 9, 10)))

\* The text is one the device's Date reads as a calendar date.
Parseable(toks, dev) ==
    IsIsoDateText(toks) \/ (dev.legacy /\ IsMonthDayYearText(toks))

\* The calendar date <<y, m, d>> written in such a text, whatever the device.
DateNamed(toks) ==
    IF IsIsoDateText(toks)
    THEN <<ParseNat(SubSeq(toks, 1, 4)), ParseNat(SubSeq(toks, 6, 7)),
           ParseNat(SubSeq(toks, 9, 10))>>
    ELSE <<ParseNat(SubSeq(toks, Len(toks) - 3, Len(toks))), MonthOf(toks[1]),
           ParseNat(SubSeq(toks, 3, Len(toks) - 6))>>

YmdText(ymd) == Pad(ymd[1], 4) \o <<"-">> \o Pad(ymd[2], 2) \o <<"-">> \o Pad(ymd[3], 2)

\* C7: normalizeResponse is total: on every JSON value (the empty object,
\* an array, null, a scalar, an object with wrong-typed fields) it returns
\* a result object and does not throw.
C7_NormalizeNeverThrows ==
    npc = "done" => (~nout.threw /\ nout.val.t = "obj")

\* C8: the output confidence_score is 0 when the input is not a number or
\* is negative, the input when it is in [0, 1], the input / 100 when it is
\* in (1, 100], and 1 above 100; so it lies in [0, 1].
C8_ConfidenceClamped ==
    (npc = "done" /\ ~nout.threw)
    => LET c == nin.confidence_score
           o == nout.val.confidence_score
       IN /\ o.t = "num" /\ o.n >= 0 /\ o.n <= NumScale
          /\ (c.t # "num" \/ c.n < 0) => o.n = 0
          /\ (c.t = "num" /\ c.n >= 0 /\ c.n <= NumScale) => o.n = c.n
          /\ (c.t = "num" /\ c.n > NumScale /\ c.n <= 100 * NumScale) => o.n * 100 = c.n
          /\ (c.t = "num" /\ c.n > 100 * NumScale) => o.n = NumScale

C8_Witness ==
    /\ npc = "done" /\ ~nout.threw
    /\ nin.confidence_score = Whole(75)
    /\ nout.val.confidence_score = Num(7500)

\* C9: the output receipt_date is null (or left out) or a text in
\* canonical YYYY-MM-DD form, also when the input receipt_date is missing,
\* empty or not a string.
C9_DateNullOrCanonical ==
    (npc = "done" /\ ~nout.threw)
    => \/ nout.val.receipt_date \in {Null, Undef}
       \/ (nout.val.receipt_date.t = "str" /\ CanonicalDateText(nout.val.receipt_date.s))

\* C10: a receipt_date text that Date can parse is rewritten to the
\* YYYY-MM-DD of the calendar date written in it, whatever the device's time
\* zone, and a text it cannot parse becomes null.
C10_DateTextKeepsItsDay ==
    (npc = "done" /\ ~nout.threw /\ nin.receipt_date.t = "str" /\ nin.receipt_date.s # <<>>)
    => IF Parseable(nin.receipt_date.s, device)
          /\ ValidYMD(DateNamed(nin.receipt_date.s)[1], DateNamed(nin.receipt_date.s)[2],
                      DateNamed(nin.receipt_date.s)[3])
       THEN nout.val.receipt_date = Str(YmdText(DateNamed(nin.receipt_date.s)))
       ELSE nout.val.receipt_date = Null

\* C11: an input invoice_type outside retail, restaurant, utility, service,
\* unknown (a missing value and a value of another type included) comes out
\* as unknown; a member of the set comes out unchanged.
C11_InvoiceTypeClamped ==
    (npc = "done" /\ ~nout.threw)
    => IF nin.invoice_type \in {Str(<<"retail">>), Str(<<"restaurant">>), Str(<<"utility">>),
                                Str(<<"service">>), Str(<<"unknown">>)}
       THEN nout.val.invoice_type = nin.invoice_type
       ELSE nout.val.invoice_type = Str(<<"unknown">>)

C11_Witness ==
    /\ npc = "done" /\ ~nout.threw
    /\ nin.invoice_type = Str(<<"grocery">>)
    /\ nout.val.invoice_type = Str(<<"unknown">>)

\* The LineItem the claim gives for one element of items.
ItemAsClaimed(in, out) ==
    /\ out.name.t = "str"
    /\ (in.name.t = "str" /\ in.name.s # <<>>) => out.name = in.name
    /\ (in.name \in {Undef, Null, Str(<<>>)}) => out.name = Str(<<"Unknown Item">>)
    /\ out.quantity = (IF in.quantity.t = "num" THEN in.quantity ELSE Null)
    /\ out.price = (IF in.price.t = "num" THEN in.price ELSE Num(0))

\* C12: the output items are empty when the input items are not an array;
\* otherwise there is one LineItem per input element, in order, with the
\* name as text ("Unknown Item" when blank or missing), the quantity when
\* numeric and null otherwise, the price when numeric and 0 otherwise.
\* (Stated for replies that are objects with a usable currency.)
C12_ItemsMapped ==
    (npc = "done" /\ nin.t = "obj" /\ nin.currency.t \in {"str", "null", "undef"})
    => /\ ~nout.threw
       /\ nout.val.items.t = "arr"
       /\ nin.items.t # "arr" => nout.val.items.elems = <<>>
       /\ nin.items.t = "arr" =>
            /\ Len(nout.val.items.elems) = Len(nin.items.elems)
            /\ \A i \in 1..Len(nin.items.elems) :
                ItemAsClaimed(nin.items.elems[i], nout.val.items.elems[i])

\* C13: every LineItem of a returned result has a non-empty text name, a
\* quantity that is null or a non-negative number, and a numeric price.
C13_LineItemsWellFormed ==
    (npc = "done" /\ ~nout.threw)
    => \A i \in 1..Len(nout.val.items.elems) :
        LET it == nout.val.items.elems[i]
        IN /\ it.name.t = "str" /\ it.name.s # <<>>
           /\ it.quantity = Null \/ (it.quantity.t = "num" /\ it.quantity.n >= 0)
           /\ it.price.t = "num"

\* C14: the output currency is "BDT" when the input currency is missing or
\* empty and the upper-cased input text otherwise ("usd" gives "USD").
C14_CurrencyDefaulted ==
    (npc = "done" /\ ~nout.threw)
    => /\ nin.currency \in {Undef, Null, Str(<<>>)} => nout.val.currency = Str(<<"BDT">>)
       /\ (nin.currency.t = "str" /\ nin.currency.s # <<>>)
            => nout.val.currency = Str(toUpperCase(nin.currency.s))
       /\ nin.currency = Str(<<"usd">>) => nout.val.currency = Str(<<"USD">>)
       /\ nout.val.currency.t = "str" /\ nout.val.currency.s # <<>>

C14_Witness ==
    /\ npc = "done" /\ ~nout.threw
    /\ nin.currency = Str(<<"usd">>)
    /\ nout.val.currency = Str(<<"USD">>)

\* The claim's rule for a text field: a non-empty text is kept, anything
\* else becomes null.
TextOrNull(in, out) ==
    IF in.t = "str" /\ in.s # <<>> THEN out = in ELSE out = Null

\* C15: merchant_name, receipt_number, payment_method and error_message of
\* a returned result are each null or a text: a truthy text is passed
\* through and every other input value becomes null.
C15_TextFieldsNullOrText ==
    (npc = "done" /\ ~nout.threw)
    => /\ TextOrNull(nin.merchant_name, nout.val.merchant_name)
       /\ TextOrNull(nin.receipt_number, nout.val.receipt_number)
       /\ TextOrNull(nin.payment_method, nout.val.payment_method)
       /\ TextOrNull(nin.error_message, nout.val.error_message)

\* ------------------------------------------------------------------------
\* validateImage and the capture flow (specification SpecCapture)
\* ------------------------------------------------------------------------

\* handleCapture has validated an image.
Captured == cstate \in {"processing", "success", "error"}

\* A probe of the image fails with an exception before a verdict is reached.
ProbeFails(img) ==
    \/ img.infoThrows
    \/ img.exists /\ SizeOf(img) <= 20 * 1024 * 1024 /\ img.sizeRejects

Rejected(text) == [valid |-> FALSE, error |-> Str(<<text>>)]

\* C16: validateImage answers not-found for a missing file; otherwise
\* too-large for a reported size above 20 MB (exactly 20 MB passes);
\* otherwise resolution-too-high above 33,177,600 pixels (exactly
\* 33,177,600 passes, 33,177,601 fails); otherwise valid.
C16_ValidateImageOrder ==
    (Captured /\ ~ProbeFails(image) /\ (image.exists => image.reportsSize))
    => /\ ~image.exists => validation = Rejected("Image file not found")
       /\ (image.exists /\ image.bytes > 20971520)
            => validation = Rejected("Image file is too large (max 20MB)")
       /\ (image.exists /\ image.bytes <= 20971520 /\ image.width * image.height >= 33177601)
            => validation = Rejected("Image resolution too high (max 33 megapixels)")
       /\ (image.exists /\ image.bytes <= 20971520 /\ image.width * image.height <= 33177600)
            => validation = [valid |-> TRUE, error |-> Undef]

\* An image exactly at both limits has been accepted.
C16_Witness ==
    /\ Captured
    /\ image.bytes = 20971520 /\ image.reportsSize
    /\ image.width * image.height = 33177600
    /\ validation.valid

\* C17 as stated: an exception raised while probing comes back as a
\* rejection whose error is the underlying cause.
C17_RejectionCarriesCause ==
    (Captured /\ ProbeFails(image))
    => /\ ~validation.valid
       /\ validation.error = Str(image.message)

\* C17 amended: an exception raised while probing comes back as a
\* rejection; its error is the exception's message when the exception is
\* an Error, and the fixed text "Failed to validate image" otherwise; the
\* image is never processed.
C17_RejectionCarriesErrorMessage ==
    (Captured /\ ProbeFails(image))
    => /\ ~validation.valid
       /\ cstate # "processing"
       /\ validation.error = IF image.isError THEN Str(image.message)
                             ELSE Str(<<"Failed to validate image">>)

\* getSize has rejected with a value that is not an Error, and the image
\* was rejected with the fixed text.
C17_Witness ==
    /\ Captured
    /\ ~image.infoThrows /\ image.sizeRejects /\ ~image.isError
    /\ image.message = <<"Failed to get size">>
    /\ validation = Rejected("Failed to validate image")

\* An image with an eligibility error: missing, reported size over 20 MB,
\* over 33,177,600 pixels, or a base64 text that processImageForUpload
\* refuses as over 4 MB.
Ineligible(img) ==
    \/ ~img.exists
    \/ SizeOf(img) > 20 * 1024 * 1024
    \/ img.width * img.height > 33177600
    \/ 3 * Base64LengthOf(img.bytes) > 4 * (4 * 1024 * 1024)

\* C18: for an image with an eligibility error the capture flow does not
\* call parseReceiptWithRetry, makes no remote call, and shows the
\* rejection message in the error state.
C18_EligibilityErrorSkipsController ==
    (Captured /\ ~ProbeFails(image) /\ (image.exists => image.reportsSize) /\ Ineligible(image))
    => /\ pc = "idle"
       /\ log = <<>>
       /\ cstate = "error"
       /\ errorMessage.t = "str" /\ errorMessage.s # <<>>

\* ------------------------------------------------------------------------
\* Payload size and credential (specification Spec)
\* ------------------------------------------------------------------------

\* C19: no parseReceipt call reaches fetch with a base64 text longer than
\* 4 x 1024 x 1024.
C19_NoFetchAboveFourMegabytes ==
    \A i \in 1..Len(log) :
        log[i].base64Len > 4 * 1024 * 1024 => ~log[i].fetched

\* C20: an attempt made without the API key sends no request and is the
\* last attempt: parseReceiptWithRetry returns its result, whose
\* error_message reports the missing key; when the first attempt has no
\* key there is exactly one attempt.
C20_MissingKeyNotRetried ==
    \A i \in 1..Len(log) :
        log[i].kind = "noKey"
        => /\ ~log[i].fetched
           /\ i = Len(log)
           /\ pc = "done" /\ via = "result"
           /\ delays = <<>>
           /\ ret.error_message =
                Str(<<"GROQ_API_KEY not found. Please set EXPO_PUBLIC_GROQ_API_KEY or GROQ_API_KEY.">>)
           /\ ret.total = Null

\* A call allowed three attempts has returned after one attempt without a key.
C20_Witness ==
    /\ pc = "done" /\ maxRetries = 3
    /\ Len(log) = 1 /\ log[1].kind = "noKey"
    /\ ~log[1].fetched

\* ------------------------------------------------------------------------
\* Record assembly and persistence (specification SpecCapture)
\* ------------------------------------------------------------------------

\* The extraction fields handleCapture copies.
CopiedFields ==
    {"merchant_name", "receipt_date", "receipt_number", "invoice_type", "items",
     "subtotal", "tax", "currency", "payment_method", "confidence_score",
     "error_message"}

\* handleCapture's createReceipt has just succeeded.
SavedByCapture == cstate = "processing" /\ cstate' = "success"

\* C21: the receipt handleCapture saves from the result r has total 0 when
\* r.total is null and r.total otherwise, image_uri the captured image and
\* every other extraction field equal to r's; createReceipt adds an id no
\* stored receipt has and a created_at, changes nothing else, and inserts
\* exactly that row.
C21_AssembledRecord ==
    [][SavedByCapture =>
        /\ processedReceipt'.total = (IF ret.total = Null THEN Whole(0) ELSE ret.total)
        /\ processedReceipt'.image_uri = image.uri
        /\ \A f \in CopiedFields : processedReceipt'[f] = ret[f]
        /\ DOMAIN processedReceipt' =
             CopiedFields \cup {"total", "image_uri", "raw_text", "id", "created_at"}
        /\ processedReceipt'.id \in Ids /\ processedReceipt'.created_at \in Times
        /\ \A q \in stored : q.id # processedReceipt'.id
        /\ stored' = stored \cup {processedReceipt'}]_vars

\* A failure result with a null total has been saved with total 0, next to
\* an earlier receipt.
C21_Witness ==
    /\ cstate = "success"
    /\ ret.total = Null /\ Truthy(ret.error_message)
    /\ processedReceipt.total = Whole(0)
    /\ processedReceipt.error_message = ret.error_message
    /\ EarlierReceipt \in stored /\ processedReceipt \in stored

\* ------------------------------------------------------------------------
\* The receipts table (specification SpecStore)
\* ------------------------------------------------------------------------

\* C22: after any sequence of createReceipt, updateReceipt and
\* deleteReceipt calls every stored receipt has one id and one created_at
\* and a total that is a number; no call changes the created_at of a row
\* that stays in the table, and updateReceipt keeps the set of ids.
C22_IdentityAndTotalKept ==
    /\ [](\A r \in stored :
            /\ r.id \in Ids /\ r.created_at \in Times
            /\ r.total.t = "num"
            /\ \A q \in stored : q.id = r.id => q = r)
    /\ [][\A r \in stored : \A q \in stored' :
            q.id = r.id => q.created_at = r.created_at]_vars
    /\ [][Cardinality(stored') = Cardinality(stored)
            => {q.id : q \in stored'} = {r.id : r \in stored}]_vars

\* A receipt created with total 500 now has total 750 and a new merchant
\* name, under its first created_at.
C22_Witness ==
    \E r \in stored :
        /\ r.total = Whole(750)
        /\ r.merchant_name = Str(<<"Agora">>)
        /\ r.created_at = "2025-01-12T10:00:00.000Z"
        /\ Cardinality(stored) = 2

\* "Save Anyway" has just succeeded.
SavedAnyway == cstate = "error" /\ cstate' = "success"

\* The errors createReceipt can end handleCapture with.
StorageErrors ==
    {Str(<<"database is locked">>), Str(<<>>), Str(<<"Failed to process receipt">>),
     Str(<<"UNIQUE constraint failed: receipts.id">>)}

\* C23: for an image that passed validateImage, handleCapture saves one
\* receipt with that image_uri, for extracted data and for a failure result
\* alike (the failure result with its error_message and total 0), and
\* only a failing createReceipt leads to the error state; in the error
\* state the image is still held and "Save Anyway" saves a receipt with
\* that image_uri, total 0 and an error_message.
C23_CapturedImageKept ==
    /\ [][SavedByCapture =>
            /\ validation.valid
            /\ processedReceipt'.image_uri = image.uri
            /\ stored' = stored \cup {processedReceipt'} /\ processedReceipt' \notin stored
            /\ ret.total = Null
                 => /\ processedReceipt'.total = Whole(0)
                    /\ processedReceipt'.error_message = ret.error_message]_vars
    /\ []((cstate = "error" /\ validation.valid) => errorMessage \in StorageErrors)
    /\ [](cstate = "error" => image.uri = "file:///receipt.jpg")
    /\ [][SavedAnyway =>
            /\ processedReceipt'.image_uri = image.uri
            /\ processedReceipt'.total = Whole(0)
            /\ processedReceipt'.error_message.t = "str"
            /\ processedReceipt'.error_message.s # <<>>
            /\ stored' = stored \cup {processedReceipt'} /\ processedReceipt' \notin stored]_vars

\* An image rejected as too large has been saved with "Save Anyway".
C23_Witness ==
    /\ cstate = "success"
    /\ ~validation.valid
    /\ processedReceipt \in stored
    /\ processedReceipt.image_uri = image.uri
    /\ processedReceipt.total = Whole(0)
    /\ processedReceipt.error_message = Str(<<"Image file is too large (max 20MB)">>)

\* ------------------------------------------------------------------------
\* Export (specification SpecExport)
\* ------------------------------------------------------------------------

\* Positions of the receipt-level cells and of the item cells in a row.
ReceiptCells == {1, 2, 3, 4, 5, 9, 10, 11, 12, 13, 14, 15}

\* max(1, number of items), summed over the receipts.
RECURSIVE DataRowCount(_)
DataRowCount(rs) ==
    IF rs = <<>> THEN 0
    ELSE (IF Len(Head(rs).items.elems) = 0 THEN 1 ELSE Len(Head(rs).items.elems))
         + DataRowCount(Tail(rs))

\* The rows of receipts 1..k-1 come before receipt k's first row.
FirstRowOf(rs, k) == 2 + DataRowCount(SubSeq(rs, 1, k - 1))

\* The file has one header row and, per receipt, one row or one row per
\* item, with the receipt's cells filled on its first row only.
CsvAsClaimed(rs, f) ==
    /\ f.rows # <<>> /\ f.rows[1] = headers
    /\ Len(f.rows) = 1 + DataRowCount(rs)
    /\ \A k \in 1..Len(rs) :
        LET r == rs[k]
            n == Len(r.items.elems)
            at == FirstRowOf(rs, k)
        IN /\ f.rows[at][1] = <<r.id>>
           /\ f.rows[at][15] = <<r.created_at>>
           /\ f.rows[at][11] = escapeCSV(r.total)
           /\ f.rows[at][2] = escapeCSV(r.merchant_name)
           /\ n = 0 => \A c \in {6, 7, 8} : f.rows[at][c] = <<>>
           /\ \A i \in 1..n :
                /\ f.rows[at + i - 1][6] = escapeCSV(r.items.elems[i].name)
                /\ f.rows[at + i - 1][8] = escapeCSV(r.items.elems[i].price)
                /\ i > 1 => \A c \in ReceiptCells : f.rows[at + i - 1][c] = <<>>

\* C24 as stated: for any number of receipts, one included, the CSV file
\* is the header row and the receipts' rows.
C24_CsvRowsAnyCount ==
    (format = "csv" /\ file.kind = "csv") => CsvAsClaimed(receipts, file)

\* C24 amended: for no receipt and for two or more the CSV file is the
\* header row and the receipts' rows; for exactly one receipt it is the
\* two-section file of exportReceiptToCsv: twelve summary lines, an empty
\* line, the two lines heading the items, and one line per item.
C24_CsvRowsUnlessSingle ==
    (format = "csv" /\ file.kind = "csv")
    => IF Len(receipts) # 1 THEN CsvAsClaimed(receipts, file)
       ELSE /\ Len(file.rows) = 15 + Len(receipts[1].items.elems)
            /\ file.rows[1] = <<<<"=== RECEIPT SUMMARY ===">>>>
            /\ file.rows[2] = <<<<"Field">>, <<"Value">>>>
            /\ file.rows[9] = <<<<"Total">>, escapeCSV(receipts[1].total)>>
            /\ file.rows[15] = <<<<"Item Name">>, <<"Quantity">>, <<"Price">>>>
            /\ \A i \in 1..Len(receipts[1].items.elems) :
                 file.rows[15 + i] =
                    <<escapeCSV(receipts[1].items.elems[i].name),
                      escapeCSV(receipts[1].items.elems[i].quantity),
                      escapeCSV(receipts[1].items.elems[i].price)>>

\* Two receipts, the second with two items, were written as four lines.
C24_Witness ==
    /\ format = "csv" /\ file.kind = "csv"
    /\ Len(receipts) = 2
    /\ Len(receipts[1].items.elems) = 0 /\ Len(receipts[2].items.elems) = 2
    /\ Len(file.rows) = 4
    /\ file.rows[4][1] = <<>> /\ file.rows[3][1] # <<>>

\* The JSON value wraps the receipts with an export time and their count
\* and summed total.
JsonAsClaimed(rs, f) ==
    /\ DOMAIN f.json = {"exported_at", "total_receipts", "total_amount", "receipts"}
    /\ f.json.receipts = rs
    /\ f.json.exported_at \in Times
    /\ f.json.total_amount.t = "num"
    /\ f.json.total_amount.n = SumOfTotals(rs)
    /\ Len(rs) = 2 => f.json.total_amount.n = rs[1].total.n + rs[2].total.n
    /\ Len(rs) = 0 => f.json.total_amount = Num(0)

\* C25 as stated: for any number of receipts, one included, the JSON file
\* wraps all the receipts with an export timestamp and their summed total.
C25_JsonWrapsAnyCount ==
    (format = "json" /\ file.kind = "json") => JsonAsClaimed(receipts, file)

\* C25 amended: for no receipt and for two or more the JSON file wraps the
\* receipts with an export timestamp and their summed total; for exactly
\* one receipt it is that receipt alone, with no timestamp and no total.
C25_JsonWrapsUnlessSingle ==
    (format = "json" /\ file.kind = "json")
    => IF Len(receipts) # 1 THEN JsonAsClaimed(receipts, file)
       ELSE file.json = receipts[1]

\* Two receipts with totals 500 and 12.505 were written with the
\* aggregate 512.505.
C25_Witness ==
    /\ format = "json" /\ file.kind = "json"
    /\ Len(receipts) = 2
    /\ receipts[1].total = Whole(500) /\ receipts[2].total = Num(125050)
    /\ file.json.total_amount = Num(500 * NumScale + 125050)

\* ------------------------------------------------------------------------
\* parseReceipt's failures (specification Spec)
\* ------------------------------------------------------------------------

\* The safe object: nullable fields null, no items, unknown, BDT, 0.
SafeObject(r) ==
    /\ r.merchant_name = Null /\ r.receipt_date = Null /\ r.receipt_number = Null
    /\ r.subtotal = Null /\ r.tax = Null /\ r.total = Null /\ r.payment_method = Null
    /\ r.items = ItemList(<<>>)
    /\ r.invoice_type = Str(<<"unknown">>)
    /\ r.currency = Str(<<"BDT">>)
    /\ r.confidence_score = Num(0)

\* C26 as stated: parseReceipt never throws, and every failure inside it
\* comes back as the safe object whose error_message is the failure's
\* message.
C26_FailureBecomesSafeObject ==
    \A i \in 1..Len(log) :
        /\ ~log[i].threw
        /\ log[i].cause.threw
             => /\ SafeObject(log[i].result)
                /\ log[i].result.error_message = Str(log[i].cause.message)

\* C26 amended: parseReceipt never throws, and every failure inside it
\* comes back as the safe object; its error_message is the failure's
\* message when the failure is an Error and "Unknown error occurred" when
\* the thrown value is not an Error.
C26_FailureBecomesSafeObjectOrUnknown ==
    \A i \in 1..Len(log) :
        /\ ~log[i].threw
        /\ log[i].cause.threw
             => /\ SafeObject(log[i].result)
                /\ log[i].result.error_message =
                     (IF log[i].cause.isError THEN Str(log[i].cause.message)
                      ELSE Str(<<"Unknown error occurred">>))
        /\ ~log[i].cause.threw => log[i].result = log[i].cause.val

\* A call has failed on a getSize rejection that is not an Error and came
\* back with the fixed text.
C26_Witness ==
    /\ Len(log) = 1
    /\ log[1].kind = "getSizeRejects" /\ ~log[1].cause.isError
    /\ log[1].result.error_message = Str(<<"Unknown error occurred">>)

\* ------------------------------------------------------------------------
\* Order and number of attempts (specification SpecSeq)
\* ------------------------------------------------------------------------

\* The attempts begun and not yet completed.
InFlight == Len(started) - Len(log)

C28_InitializedImpliesHandle == isInitialized => db # "null"

\* ------------------------------------------------------------------------
\* Over-the-air updates (specification SpecOta)
\* ------------------------------------------------------------------------

\* C29: whenever the checkForUpdate of a checkAndApplyUpdate call returns
\* true, that call goes on to call Updates.fetchUpdateAsync.
C29_FoundUpdateIsFetched ==
    [][(/\ calls["checkAndApplyUpdate"].pc = "checking"
        /\ calls'["checkAndApplyUpdate"].hasUpdate)
       => (/\ calls'["checkAndApplyUpdate"].pc = "fetching"
           /\ fetchCalls' = fetchCalls + 1)]_vars

\* ------------------------------------------------------------------------
\* normalizeResponse applied to its own result (specification SpecNorm)
\* ------------------------------------------------------------------------

\* What normalizeResponse makes of the object it returned.
NormalizedAgain == normalizeResponse(nout.val, device)

\* C30: normalizeResponse is idempotent: where it returns, applying it to
\* its result returns the same object, field by field.
C30_Idempotent ==
    (npc = "done" /\ ~nout.threw) => NormalizedAgain = nout

=============================================================================
